---- MODULE Spec2Model ----
(***************************************************************************)
(* Model of the BigQuery AI orchestration layer: the feature classes       *)
(* (Forecaster, TextGenerator, ContentGenerator, EmbeddingGenerator,       *)
(* VectorSearch) and the FastAPI handlers of src/main.py.                  *)
(*                                                                         *)
(* The warehouse is an external collaborator.  Every call a handler makes  *)
(* to it (create_table, insert_rows_json, query, delete_table) has an      *)
(* outcome chosen nondeterministically; the handler's control flow, the    *)
(* exceptions it raises or swallows and the record it returns are          *)
(* translated from the source.  `last` holds the outcome of the most       *)
(* recent call together with the trace of warehouse calls it issued.       *)
(***************************************************************************)
EXTENDS Integers, Sequences, FiniteSets, Bags, TLC

\* ------------------------------------------------------------------ bounds
MaxCalls == 2      \* operations invoked in one behaviour
MaxRows == 2       \* rows of an inline time series / periods of a forecast
MaxBatch == 3      \* items of a batch request
MaxRequests == 1   \* requests to the generation and history endpoints in one behaviour
MaxProbes == 1     \* GET /health requests in one behaviour
MaxConnCalls == 5  \* calls on the connection provider in one behaviour
MaxThreadCalls == 3 \* get_client calls started by the threads in one behaviour
MaxHelperCalls == 1 \* applications of a pure helper in one behaviour
MaxResults == 2    \* results in a list handed to get_search_metrics
MaxFiles == 2      \* file rows handed to the object-table aggregation
MaxIndexCalls == 3 \* calls on the index manager in one behaviour
MaxValues == 3     \* forecast values handed to the metrics helper

VARIABLES
    calls,        \* number of operations invoked so far (also the uuid source)
    tempTables,   \* temporary forecast tables that exist in the warehouse
    audit,        \* audit tables: table name -> sequence of appended rows
    last,         \* outcome of the most recent operation
    env,          \* the process environment: required settings, "" when unset
    config_global,\* the module global _bigquery_config is set
    client_cached,\* its _client holds a handle
    client_handle,\* the handle its _client holds, 0 for None
    handles,      \* number of client handles constructed so far
    threads,      \* per thread: where its get_client call stands
    index_store,  \* vector indexes that exist, and the rows of their metadata table
    inflight,     \* requests accepted and not yet answered, each with its thread
    replaced,     \* the _client of each config object the global no longer holds
    probes        \* number of GET /health requests accepted so far

vars == <<calls, tempTables, audit, last, env, config_global, client_cached,
          client_handle, handles, threads, index_store, inflight, replaced, probes>>

\* ------------------------------------------------------- python-side values
NoExc == [type |-> "none", msg |-> ""]
Exc(t, m) == [type |-> t, msg |-> m]

\* Outcomes of a warehouse call are strings: "ok", "errors", "rows0", "row",
\* or the message of the error the client raised.
WarehouseErrors == {"quota exceeded", "access denied"}
WarehouseError(m) == Exc("GoogleAPIError", m)

\* One warehouse call issued by a handler, with what came of it.
\* An insert_rows_json event also carries the row it sends.
NoRow == [kind |-> "none"]
EvRow(call, table, out, row) == [call |-> call, table |-> table, out |-> out, row |-> row]
Ev(call, table, out) == EvRow(call, table, out, NoRow)

NoResult == [kind |-> "none"]

\* =================================================================
\* Forecaster (src/generative_ai/forecaster.py); GeminiIntegration's
\* forecast_with_gemini has the same control flow.
\* =================================================================

\* What self.config is: get_bigquery_config() returns a BigQueryConfig
\* object (attributes and methods, no item access); the unit tests patch
\* the provider to return a Mock with the same attributes and
\* get_full_table_id (tests/conftest.py, mock_bigquery_config); a harness
\* may inject a mapping.
ConfigKinds == {"BigQueryConfig", "Mock", "mapping"}

\* self.config['project_id']: item access works on a mapping only.
ConfigItem(cfg) ==
    IF cfg = "mapping" THEN NoExc
    ELSE IF cfg = "Mock" THEN Exc("TypeError", "'Mock' object is not subscriptable")
    ELSE Exc("TypeError", "'BigQueryConfig' object is not subscriptable")

\* self.config.get_full_table_id(...): a method of BigQueryConfig, answered
\* by the Mock as well; a mapping has no such attribute.
get_full_table_id(cfg) ==
    IF cfg \in {"BigQueryConfig", "Mock"} THEN NoExc
    ELSE Exc("AttributeError", "'dict' object has no attribute 'get_full_table_id'")

\* temp_forecast_<uuid4 hex> (Forecaster), temp_gemini_forecast_<uuid4 hex>
\* (GeminiIntegration): a fresh name per call.
TempTableName(cls, id) ==
    (IF cls = "Forecaster" THEN "temp_forecast_" ELSE "temp_gemini_forecast_")
        \o ToString(id)

\* Outcomes of the warehouse calls one forecast may issue: create_table,
\* insert_rows_json into the temp table, query (+ the shape of the
\* ai_forecast_result field of its first row), the delete_table calls and the
\* audit insert.  A call the handler does not reach keeps its default, so
\* each distinct run of the handler is drawn once.
DeleteOuts == {"ok", "raise"}
InsertOuts == {"ok", "errors", "raise"}
ForecastWorld0 ==
    [create |-> "ok", load |-> "ok", query |-> "row", shape |-> "struct",
     periods |-> 0, del1 |-> "ok", del2 |-> "ok", store |-> "ok"]
ForecastWorlds ==
    {[ForecastWorld0 EXCEPT !.create = c] : c \in WarehouseErrors}
    \cup {[ForecastWorld0 EXCEPT !.load = l] : l \in {"errors"} \cup WarehouseErrors}
    \cup {[ForecastWorld0 EXCEPT !.query = q, !.del1 = d] :
             q \in {"rows0"} \cup WarehouseErrors, d \in DeleteOuts}
    \cup {[ForecastWorld0 EXCEPT !.shape = "null", !.del1 = x[1], !.del2 = x[2], !.store = x[3]] :
             x \in DeleteOuts \X DeleteOuts \X InsertOuts}
    \cup {[ForecastWorld0 EXCEPT !.shape = x[1], !.periods = x[2], !.del1 = x[3], !.store = x[4]] :
             x \in ({"struct"} \X (0..MaxRows) \X DeleteOuts \X InsertOuts)
                   \cup ({"absent"} \X {0} \X DeleteOuts \X InsertOuts)}

\* _create_temp_table: returns [exc, trace]; exc = NoExc means the table id
\* was returned to forecast.
_create_temp_table(cfg, t, w) ==
    IF ConfigItem(cfg) # NoExc
    THEN [exc |-> ConfigItem(cfg), trace |-> << >>]
    ELSE IF w.create # "ok"
    THEN [exc |-> WarehouseError(w.create), trace |-> <<Ev("create_table", t, "raise")>>]
    ELSE IF w.load \in WarehouseErrors
    THEN [exc |-> WarehouseError(w.load),
          trace |-> <<Ev("create_table", t, "ok"), Ev("insert_rows_json", t, "raise")>>]
    ELSE IF w.load = "errors"
    THEN [exc |-> Exc("ValueError", "Failed to insert data into temp table"),
          trace |-> <<Ev("create_table", t, "ok"), Ev("insert_rows_json", t, "errors")>>]
    ELSE [exc |-> NoExc,
          trace |-> <<Ev("create_table", t, "ok"), Ev("insert_rows_json", t, "ok")>>]

\* _cleanup_temp_table: issues the deletion, swallows its failure.
_cleanup_temp_table(t, out) ==
    <<Ev("delete_table", t, out)>>

\* _store_forecast: best-effort audit insert; every failure is swallowed.
\* (GeminiIntegration: _store_gemini_generation, into gemini_generations.)
_store_forecast(cls, cfg, out) ==
    IF ConfigItem(cfg) # NoExc THEN << >>
    ELSE <<Ev("insert_rows_json",
              IF cls = "Forecaster" THEN "forecasts" ELSE "gemini_generations", out)>>

\* forecast_result = results[0].get('ai_forecast_result', {})
ForecastResult(w) ==
    CASE w.shape = "struct" -> [kind |-> "struct", periods |-> w.periods]
      [] w.shape = "absent" -> [kind |-> "struct", periods |-> 0]
      [] w.shape = "null"   -> [kind |-> "null", periods |-> 0]

\* How a call ends: it raises e to its caller, or returns r; tr is the
\* sequence of warehouse calls it issued.
Raised(e, tr) == [status |-> "raised", exc |-> e, result |-> NoResult, trace |-> tr]
Returned(r, tr) == [status |-> "returned", exc |-> NoExc, result |-> r, trace |-> tr]

ForecastClasses == {"Forecaster", "GeminiIntegration"}
NoResultsMessage(cls) ==
    IF cls = "Forecaster" THEN "No results returned from AI.FORECAST"
    ELSE "No results returned from Gemini forecast"

\* Forecaster.forecast / GeminiIntegration.forecast_with_gemini on n inline
\* rows, as call number id, with temp table t.
forecast(cls, cfg, n, id, t, w) ==
    LET ct == _create_temp_table(cfg, t, w) IN
    IF ct.exc # NoExc
    THEN \* except: 'temp_table_id' is not in locals(), so no cleanup
         Raised(ct.exc, ct.trace)
    ELSE IF w.query \in WarehouseErrors
    THEN Raised(WarehouseError(w.query),
                ct.trace \o <<Ev("query", t, "raise")>> \o _cleanup_temp_table(t, w.del1))
    ELSE IF w.query = "rows0"
    THEN Raised(Exc("ValueError", NoResultsMessage(cls)),
                ct.trace \o <<Ev("query", t, "rows0")>> \o _cleanup_temp_table(t, w.del1))
    ELSE LET fr == ForecastResult(w)
             tr == ct.trace \o <<Ev("query", t, "row")>>
                     \o _cleanup_temp_table(t, w.del1)
                     \o _store_forecast(cls, cfg, w.store)
         IN IF fr.kind = "null"
            THEN \* forecast_result.get(...) on None, after the first cleanup
                 Raised(
                        Exc("AttributeError", "'NoneType' object has no attribute 'get'"),
                        tr \o _cleanup_temp_table(t, w.del2))
            ELSE Returned(
                          [kind |-> "forecast", id |-> id, forecast_result |-> fr,
                           data_points |-> n, forecast_periods |-> fr.periods],
                          tr)

\* Outcomes of the warehouse calls of forecast_from_table: the query and
\* the audit insert; it has no temporary table.
FromTableWorlds ==
    {[ForecastWorld0 EXCEPT !.query = q] : q \in {"rows0"} \cup WarehouseErrors}
    \cup {[ForecastWorld0 EXCEPT !.shape = "null", !.store = st] : st \in InsertOuts}
    \cup {[ForecastWorld0 EXCEPT !.shape = x[1], !.periods = x[2], !.store = x[3]] :
             x \in ({"struct"} \X (0..MaxRows) \X InsertOuts)
                   \cup ({"absent"} \X {0} \X InsertOuts)}
SourceTables == {"proj.sales.daily", "proj.sales.weekly"}

\* Forecaster.forecast_from_table on the table table_id, as call number id.
forecast_from_table(cfg, table_id, id, w) ==
    IF w.query \in WarehouseErrors
    THEN Raised(WarehouseError(w.query), <<Ev("query", table_id, "raise")>>)
    ELSE IF w.query = "rows0"
    THEN Raised(Exc("ValueError", NoResultsMessage("Forecaster")),
                <<Ev("query", table_id, "rows0")>>)
    ELSE LET fr == ForecastResult(w)
             tr == <<Ev("query", table_id, "row")>>
                     \o _store_forecast("Forecaster", cfg, w.store)
         IN IF fr.kind = "null"
            THEN \* forecast_result.get(...) on None, after the audit insert
                 Raised(Exc("AttributeError", "'NoneType' object has no attribute 'get'"),
                        tr)
            ELSE Returned([kind |-> "forecast_from_table", id |-> id,
                           forecast_result |-> fr, table_id |-> table_id,
                           forecast_periods |-> fr.periods],
                          tr)

\* =================================================================
\* TextGenerator.generate_text, ContentGenerator.generate_content and
\* EmbeddingGenerator.generate_embedding: build the query, run it, take one
\* field of the first row, write the audit row (best effort), return.
\* =================================================================
GenOps == {"generate_text", "generate_content", "generate_embedding"}

\* Python values a row field can hold.
PyNone == [py |-> "None", str |-> "", list |-> << >>]
PyStr(x) == [py |-> "str", str |-> x, list |-> << >>]
PyList(x) == [py |-> "list", str |-> "", list |-> x]
\* len(x); None has no len().
PyLen(x) == IF x.py = "str" THEN Len(x.str) ELSE Len(x.list)

Prompts == {"Write a story", "It's"}
Texts == {"", "Once upon a time"}
Vectors == {<<1, 2>>, <<3, 1, 2>>}
ModelNames == {"gemini-pro"}

\* Defaults of the keyword parameters (temperature and top_p in tenths).
DefaultParams(op) ==
    IF op \in {"generate_embedding", "batch_generate_embeddings"}
    THEN [content_type |-> "text"]
    ELSE [temperature |-> 7, max_tokens |-> 1024, top_p |-> 9, top_k |-> 40]

\* Name of the warehouse operator each operation queries, and the message of
\* the ValueError raised on an empty result.
Operator(op) ==
    CASE op = "generate_text" -> "ML.GENERATE_TEXT"
      [] op = "generate_content" -> "AI.GENERATE"
      [] op = "generate_embedding" -> "ML.GENERATE_EMBEDDING"
      [] op = "search_similar" -> "VECTOR_SEARCH"
      [] op = "search_with_filter" -> "filtered VECTOR_SEARCH"
EmptyResultError(op) == Exc("ValueError", "No results returned from " \o Operator(op))

\* Audit table each operation appends to.
AuditTable(op) ==
    CASE op \in {"generate_text", "generate_content"} -> "generated_content"
      [] op = "generate_embedding" -> "embeddings"
      [] op \in {"search_similar", "search_with_filter"} -> "vector_searches"

\* Outcomes of what one generation call touches: the query, the selected
\* field of its first row (a value, missing from the row, or NULL), whether
\* the audit row can be built (bigquery.datetime is resolved at run time) and
\* the audit insert.
GenWorld0 ==
    [query |-> "row", field |-> "value", text |-> "", vector |-> << >>,
     prep |-> "ok", store |-> "ok"]
GenWorlds ==
    {[GenWorld0 EXCEPT !.query = q] : q \in {"rows0"} \cup WarehouseErrors}
    \cup {[GenWorld0 EXCEPT !.field = x[1], !.prep = x[2], !.store = x[3]] :
             x \in {"absent", "null"} \X {"ok"} \X InsertOuts}
    \cup {[GenWorld0 EXCEPT !.field = x[1], !.prep = "raise"] :
             x \in {"absent", "null", "value"} \X {"raise"}}
    \cup {[GenWorld0 EXCEPT !.text = x[1], !.vector = x[2], !.store = x[3]] :
             x \in Texts \X Vectors \X InsertOuts}

\* results[0].get(<field>, <default>): '' for the text operations, [] for
\* the embedding.
RowField(op, w) ==
    IF w.field = "null" THEN PyNone
    ELSE IF op = "generate_embedding"
         THEN PyList(IF w.field = "absent" THEN << >> ELSE w.vector)
         ELSE PyStr(IF w.field = "absent" THEN "" ELSE w.text)

\* Building the audit row and its table id.  TextGenerator and
\* EmbeddingGenerator call self.config.get_full_table_id and read
\* bigquery.datetime; ContentGenerator and VectorSearch index self.config.
\* The embedding row also takes len(embedding_vector).
RowPrepared(op, cfg, val, w) ==
    IF op \in {"generate_text", "generate_embedding"}
    THEN /\ get_full_table_id(cfg) = NoExc
         /\ w.prep = "ok"
         /\ (op = "generate_embedding" => val.py # "None")
    ELSE ConfigItem(cfg) = NoExc

\* A variant of the digest that forgets its input.
Sha256HexOfEmpty(content) ==
    "e3b0c44298fc1c149afbf4c8996fb92427ae41e4649b934ca495991b7852b855"

\* hashlib.sha256(content.encode()).hexdigest(), for the contents used here.
Sha256Hex(content) ==
    CASE content = "Write a story" ->
            "c9f9b5681f1c1ba8e35d03a941fd75eb005ce2c917434ae441a1be3166849696"
      [] content = "It's" ->
            "1d315be944a93f1944421a84f83ce04365bebc1824798f7338ce639423a09547"

\* The keyword arguments the operation hands to its audit writer.
StoreArgs(op, prompt, model, params, id) ==
    IF op = "generate_embedding"
    THEN [id |-> id, content_type |-> params.content_type,
          content_hash |-> Sha256Hex(prompt), model_name |-> model]
    ELSE [id |-> id, model_name |-> model]

\* A variant of the audit row with the dimensions of the default model.
AuditRowFixedDimensions(op, args, val) ==
    IF op = "generate_embedding"
    THEN [kind |-> op, id |-> args.id, content_type |-> args.content_type,
          content_hash |-> args.content_hash, embedding_vector |-> val,
          model_name |-> args.model_name, dimensions |-> 768]
    ELSE [kind |-> op, id |-> args.id, value |-> val, model_name |-> args.model_name]

\* The row the audit writer builds from its arguments; _store_embedding
\* takes the dimensions from the vector it was given.
AuditRow(op, args, val) ==
    IF op = "generate_embedding"
    THEN [kind |-> op, id |-> args.id, content_type |-> args.content_type,
          content_hash |-> args.content_hash, embedding_vector |-> val,
          model_name |-> args.model_name, dimensions |-> PyLen(val)]
    ELSE [kind |-> op, id |-> args.id, value |-> val, model_name |-> args.model_name]

\* A variant of the audit writers that lets an insert failure escape.
_store_reraising(op, cfg, args, val, w) ==
    IF ~RowPrepared(op, cfg, val, w)
    THEN [exc |-> NoExc, trace |-> << >>]
    ELSE [exc |-> IF w.store = "ok" THEN NoExc
                  ELSE Exc("AuditError", "audit insert failed"),
          trace |-> <<EvRow("insert_rows_json", AuditTable(op), w.store,
                            AuditRow(op, args, val))>>]

\* _store_generation / _store_embedding / _store_search: one insert when the
\* row could be built; per-row errors and exceptions are logged and dropped.
_store(op, cfg, args, val, w) ==
    IF ~RowPrepared(op, cfg, val, w)
    THEN [exc |-> NoExc, trace |-> << >>]
    ELSE [exc |-> NoExc,
          trace |-> <<EvRow("insert_rows_json", AuditTable(op), w.store,
                            AuditRow(op, args, val))>>]

\* The record a successful generation returns.
\* params: the sampling parameters (text) or the content type (embedding).
GenRecord(op, prompt, model, params, id, val) ==
    IF op = "generate_embedding"
    THEN [kind |-> op, id |-> id, content_type |-> params.content_type,
          content_hash |-> Sha256Hex(prompt),
          value |-> val, model_name |-> model, dimensions |-> PyLen(val)]
    ELSE [kind |-> op, id |-> id, value |-> val, model_name |-> model,
          parameters |-> params,
          input_length |-> Len(prompt), output_length |-> PyLen(val)]

\* A variant that answers an empty result with an empty record.
EmptyResultReturned(op, tr) == Returned([kind |-> op, id |-> 0], tr)

\* if not results: raise ValueError("No results returned from ...")
EmptyResult(op, tr) == Raised(EmptyResultError(op), tr)

\* generate_text / generate_content / generate_embedding
generate(op, cfg, prompt, model, params, id, w) ==
    IF w.query \in WarehouseErrors
    THEN Raised(WarehouseError(w.query), <<Ev("query", Operator(op), "raise")>>)
    ELSE IF w.query = "rows0"
    THEN EmptyResult(op, <<Ev("query", Operator(op), "rows0")>>)
    ELSE LET val == RowField(op, w)
             st == _store(op, cfg, StoreArgs(op, prompt, model, params, id), val, w)
             tr == <<Ev("query", Operator(op), "row")>> \o st.trace
         IN IF st.exc # NoExc
            THEN Raised(st.exc, tr)
            ELSE IF val.py = "None"
            THEN \* len(None) when logging the completion
                 Raised(Exc("TypeError", "object of type 'NoneType' has no len()"), tr)
            ELSE Returned(GenRecord(op, prompt, model, params, id, val), tr)

\* =================================================================
\* batch_generate_text / batch_generate_embeddings: a sequential loop over
\* the items, each in its own try/except.
\* =================================================================
BatchOps == {"batch_generate_text", "batch_generate_embeddings"}
ItemOp(bop) ==
    IF bop = "batch_generate_text" THEN "generate_text" ELSE "generate_embedding"

\* The entry appended for an item whose generation raised.
ErrorRecord(e, prompt) ==
    [kind |-> "error", error |-> e.msg, item |-> prompt, status |-> "failed"]

RECURSIVE ConcatAll(_)
ConcatAll(seqs) ==
    IF seqs = << >> THEN << >> ELSE Head(seqs) \o ConcatAll(Tail(seqs))

\* A variant of the loop without the per-item handler: the first failing
\* item's exception ends the batch.
batch_generate_aborting(bop, cfg, prompts, model, params, call, ws) ==
    LET outs == [i \in 1..Len(prompts) |->
                    generate(ItemOp(bop), cfg, prompts[i], model, params, <<call, i>>, ws[i])]
        failed == {i \in 1..Len(prompts) : outs[i].status = "raised"}
        first == CHOOSE i \in failed : \A j \in failed : i <= j
    IN IF failed = {}
       THEN Returned([kind |-> bop,
                      results |-> [i \in 1..Len(prompts) |-> outs[i].result]],
                     ConcatAll([i \in 1..Len(prompts) |-> outs[i].trace]))
       ELSE Raised(outs[first].exc, ConcatAll([i \in 1..first |-> outs[i].trace]))

\* batch_generate_text / batch_generate_embeddings on the items `prompts`,
\* item i meeting the warehouse outcomes ws[i].
batch_generate(bop, cfg, prompts, model, params, call, ws) ==
    LET outs == [i \in 1..Len(prompts) |->
                    generate(ItemOp(bop), cfg, prompts[i], model, params, <<call, i>>, ws[i])]
    IN Returned([kind |-> bop,
                 results |-> [i \in 1..Len(prompts) |->
                                 IF outs[i].status = "raised"
                                 THEN ErrorRecord(outs[i].exc, prompts[i])
                                 ELSE outs[i].result]],
                ConcatAll([i \in 1..Len(prompts) |-> outs[i].trace]))

\* The items of a batch of n: the prompts alternate, so a batch of three
\* holds a repeated item.
PromptAt(i) == IF i % 2 = 1 THEN "Write a story" ELSE "It's"
BatchPrompts(n) == [i \in 1..n |-> PromptAt(i)]

\* Outcomes an item of a batch can meet.
BatchItemWorlds ==
    {[GenWorld0 EXCEPT !.query = q] : q \in {"rows0", "quota exceeded"}}
    \cup {[GenWorld0 EXCEPT !.text = "Once upon a time", !.vector = <<1, 2>>]}

\* =================================================================
\* VectorSearch.search_similar / search_with_filter
\* =================================================================
SearchOps == {"search_similar", "search_with_filter"}

\* The rows of the searched table that the query selects from: their
\* similarity scores, in table order.
Scores == {0, 7}
SearchRows == UNION {[1..n -> Scores] : n \in 1..MaxRows}

\* tie: how the warehouse orders rows of equal score, which ORDER BY leaves
\* open: "table" keeps table order, "reverse" reverses it.
SearchWorld0 == [query |-> "row", rows |-> <<7>>, tie |-> "table", store |-> "ok"]
SearchWorlds ==
    {[SearchWorld0 EXCEPT !.query = q] : q \in {"rows0"} \cup WarehouseErrors}
    \cup {[SearchWorld0 EXCEPT !.rows = x[1], !.store = x[2]] :
             x \in SearchRows \X InsertOuts}
    \cup {[SearchWorld0 EXCEPT !.rows = r, !.tie = "reverse"] :
             r \in {x \in SearchRows : \E i, j \in 1..Len(x) : i < j /\ x[i] = x[j]}}

\* top_k as the callers pass it.
TopKs == 1..MaxRows

\* A row of the table as the query yields it: the table's columns (here the
\* row's position, row_id) and the computed similarity_score.
TableRows(scores) ==
    [i \in 1..Len(scores) |-> [row_id |-> i, similarity_score |-> scores[i]]]

\* A variant of the query's tail without the ORDER BY.
QueryTailUnordered(top_k) == [order_by |-> "", limit |-> top_k]

\* The tail of the query both builders write:
\* ORDER BY similarity_score DESC LIMIT {top_k}
QueryTail(top_k) == [order_by |-> "similarity_score DESC", limit |-> top_k]

\* ORDER BY similarity_score DESC as the warehouse evaluates it: r goes
\* before the first row of lower score (or, for tie = "reverse", of lower or
\* equal score).
RECURSIVE InsertDesc(_, _, _)
InsertDesc(r, sorted, tie) ==
    IF sorted = << >> THEN <<r>>
    ELSE IF \/ Head(sorted).similarity_score < r.similarity_score
            \/ tie = "reverse" /\ Head(sorted).similarity_score = r.similarity_score
    THEN <<r>> \o sorted
    ELSE <<Head(sorted)>> \o InsertDesc(r, Tail(sorted), tie)

RECURSIVE SortDesc(_, _)
SortDesc(rows, tie) ==
    IF rows = << >> THEN << >>
    ELSE InsertDesc(rows[Len(rows)], SortDesc(SubSeq(rows, 1, Len(rows) - 1), tie), tie)

\* client.query(query).result(): the rows the warehouse returns for the
\* query, ordered if the query says so and cut at its LIMIT.
RunQuery(tail, rows, tie) ==
    LET ordered == IF tail.order_by = "similarity_score DESC"
                   THEN SortDesc(rows, tie) ELSE rows
    IN SubSeq(ordered, 1, IF tail.limit < Len(ordered) THEN tail.limit ELSE Len(ordered))

\* _process_search_results: one (similarity_score, data) pair per row, in
\* the order the rows came; data is the row without its similarity_score.
_process_search_results(rows) ==
    [i \in 1..Len(rows) |->
        [similarity_score |-> rows[i].similarity_score,
         data |-> [f \in DOMAIN rows[i] \ {"similarity_score"} |-> rows[i][f]]]]

\* A variant that writes an audit row for an empty search result.
EmptySearchAudited(op, id, tr) ==
    Returned([kind |-> op, id |-> id, results |-> << >>, total_results |-> 0],
             tr \o <<EvRow("insert_rows_json", AuditTable(op), "ok", NoRow)>>)

\* A variant that treats an empty search result as the generators do.
EmptySearchRaised(op, id, tr) == Raised(EmptyResultError(op), tr)

\* if not results: log a warning and return an empty result record.
EmptySearch(op, id, tr) ==
    Returned([kind |-> op, id |-> id, results |-> << >>, total_results |-> 0], tr)

search(op, cfg, top_k, id, w) ==
    IF w.query \in WarehouseErrors
    THEN Raised(WarehouseError(w.query), <<Ev("query", Operator(op), "raise")>>)
    ELSE IF w.query = "rows0"
    THEN EmptySearch(op, id, <<Ev("query", Operator(op), "rows0")>>)
    ELSE LET results == RunQuery(QueryTail(top_k), TableRows(w.rows), w.tie)
             processed == _process_search_results(results)
             st == _store(op, cfg, [id |-> id, model_name |-> ""], PyNone, w)
         IN Returned([kind |-> op, id |-> id, results |-> processed,
                      total_results |-> Len(processed)],
                     <<Ev("query", Operator(op), "row")>> \o st.trace)

\* =================================================================
\* History reads (TextGenerator.get_generation_history,
\* EmbeddingGenerator.get_embedding_history): every failure becomes [].
\* =================================================================
HistoryOps == {"get_generation_history", "get_embedding_history"}
HistoryWorlds ==
    [query : {"rows"} \cup WarehouseErrors, rows : {0}]
    \cup [query : {"rows"}, rows : 1..MaxRows]

\* A variant of the history reads that lets a query error escape.
get_history_propagating(op, cfg, w) ==
    IF get_full_table_id(cfg) # NoExc
    THEN Returned([kind |-> op, history |-> << >>], << >>)
    ELSE IF w.query \in WarehouseErrors
    THEN Raised(WarehouseError(w.query),
                <<Ev("query", AuditTable(IF op = "get_generation_history"
                                         THEN "generate_text" ELSE "generate_embedding"),
                     "raise")>>)
    ELSE Returned([kind |-> op, history |-> [i \in 1..w.rows |-> i]],
                  <<Ev("query", AuditTable(IF op = "get_generation_history"
                                           THEN "generate_text" ELSE "generate_embedding"),
                       "row")>>)

get_history(op, cfg, w) ==
    IF get_full_table_id(cfg) # NoExc
    THEN \* self.config.get_full_table_id fails inside the try
         Returned([kind |-> op, history |-> << >>], << >>)
    ELSE IF w.query \in WarehouseErrors
    THEN Returned([kind |-> op, history |-> << >>],
                  <<Ev("query", AuditTable(IF op = "get_generation_history"
                                           THEN "generate_text" ELSE "generate_embedding"),
                       "raise")>>)
    ELSE Returned([kind |-> op, history |-> [i \in 1..w.rows |-> i]],
                  <<Ev("query", AuditTable(IF op = "get_generation_history"
                                           THEN "generate_text" ELSE "generate_embedding"),
                       "row")>>)

\* EmbeddingGenerator.get_embedding_by_hash: the stored record of the first
\* row, None when there is no row or anything fails.
PyNoneResult == [kind |-> "None"]
\* Rows the embeddings table may answer a lookup with.
StoredRows ==
    {AuditRow("generate_embedding",
              [id |-> <<1, 0>>, content_type |-> "text", content_hash |-> Sha256Hex(c),
               model_name |-> "text-embedding-001"],
              PyList(v)) : c \in Prompts, v \in Vectors}
LookupWorlds ==
    [query : {"rows0"} \cup WarehouseErrors, row : {CHOOSE r \in StoredRows : TRUE}]
    \cup [query : {"row"}, row : StoredRows]

get_embedding_by_hash(content_hash, cfg, w) ==
    IF get_full_table_id(cfg) # NoExc
    THEN \* self.config.get_full_table_id fails inside the try
         Returned(PyNoneResult, << >>)
    ELSE IF w.query \in WarehouseErrors
    THEN Returned(PyNoneResult, <<Ev("query", "embeddings", "raise")>>)
    ELSE IF w.query = "rows0"
    THEN Returned(PyNoneResult, <<Ev("query", "embeddings", "rows0")>>)
    ELSE Returned([kind |-> "embedding", id |-> w.row.id,
                   content_type |-> w.row.content_type,
                   content_hash |-> w.row.content_hash,
                   embedding_vector |-> w.row.embedding_vector,
                   model_name |-> w.row.model_name, dimensions |-> w.row.dimensions],
                  <<Ev("query", "embeddings", "row")>>)

\* =================================================================
\* The HTTP layer (src/main.py)
\* =================================================================
\* Field(...) bounds of TextGenerationRequest; temperature and top_p are
\* floats, held here in tenths.
TemperatureMin == 0
TemperatureMax == 10
MaxTokensMin == 1
MaxTokensMax == 8192
TopPMin == 0
TopPMax == 10
TopKMin == 1

TextEndpoints == {"POST /api/v1/generate/text", "POST /api/v1/generate/text/batch"}
SingleEndpoints == {"POST /api/v1/generate/text", "POST /api/v1/embeddings/generate"}
BatchEndpoints == {"POST /api/v1/generate/text/batch",
                   "POST /api/v1/embeddings/generate/batch"}
HistoryEndpoints == {"GET /api/v1/generations/history", "GET /api/v1/embeddings/history"}

\* The feature operation behind each endpoint.
EndpointOp(ep) ==
    CASE ep = "POST /api/v1/generate/text" -> "generate_text"
      [] ep = "POST /api/v1/generate/text/batch" -> "batch_generate_text"
      [] ep = "POST /api/v1/embeddings/generate" -> "generate_embedding"
      [] ep = "POST /api/v1/embeddings/generate/batch" -> "batch_generate_embeddings"
      [] ep = "GET /api/v1/generations/history" -> "get_generation_history"
      [] ep = "GET /api/v1/embeddings/history" -> "get_embedding_history"

\* Request bodies.  text is the prompt (or content) field, has_text whether
\* the body carries it.
DefaultRequest ==
    [has_text |-> TRUE, text |-> "Write a story", model_name |-> "gemini-pro",
     temperature |-> 7, max_tokens |-> 1024, top_p |-> 9, top_k |-> 40,
     content_type |-> "text"]
\* Bodies around each bound of the request model: one field at a time off
\* its default, and two fields at once.
TextRequests ==
    {[DefaultRequest EXCEPT !.has_text = b] : b \in BOOLEAN}
    \cup {[DefaultRequest EXCEPT !.temperature = v] : v \in {0 - 1, 0, 10, 11}}
    \cup {[DefaultRequest EXCEPT !.max_tokens = v] : v \in {0, 1, 8192, 8193}}
    \cup {[DefaultRequest EXCEPT !.top_p = v] : v \in {0 - 1, 0, 10, 11}}
    \cup {[DefaultRequest EXCEPT !.top_k = v] : v \in {0, 1}}
    \cup {[DefaultRequest EXCEPT !.temperature = 11, !.top_k = 0],
          [DefaultRequest EXCEPT !.has_text = FALSE, !.max_tokens = 8193]}
EmbeddingRequests ==
    {[DefaultRequest EXCEPT !.has_text = b, !.text = t] : b \in BOOLEAN, t \in Prompts}

\* A body whose model and parameters all differ from the defaults, and the
\* bodies of a batch: its first item and its later items.
OtherRequest ==
    [DefaultRequest EXCEPT !.model_name = "gemini-1.5-pro", !.temperature = 2,
                           !.max_tokens = 100, !.top_p = 5, !.top_k = 10,
                           !.content_type = "image"]
BatchBodies ==
    {<<DefaultRequest, DefaultRequest>>, <<DefaultRequest, OtherRequest>>,
     <<OtherRequest, DefaultRequest>>}

\* The fields of a body that violate the request model (TextGenerationRequest
\* for the text endpoints, EmbeddingRequest for the embedding endpoints).
ValidationErrors(ep, req) ==
    {f \in {"text"} : ~req.has_text}
    \cup (IF ep \in TextEndpoints
          THEN {f \in {"temperature"} :
                   req.temperature < TemperatureMin \/ req.temperature > TemperatureMax}
               \cup {f \in {"max_tokens"} :
                       req.max_tokens < MaxTokensMin \/ req.max_tokens > MaxTokensMax}
               \cup {f \in {"top_p"} : req.top_p < TopPMin \/ req.top_p > TopPMax}
               \cup {f \in {"top_k"} : req.top_k < TopKMin}
          ELSE {})

\* The keyword arguments a handler passes on from a request.
ParamsOf(ep, req) ==
    IF ep \in TextEndpoints
    THEN [temperature |-> req.temperature, max_tokens |-> req.max_tokens,
          top_p |-> req.top_p, top_k |-> req.top_k]
    ELSE [content_type |-> req.content_type]

\* The feature object a handler is given: the class of this repository, or
\* a stand-in of the patched class whose operation raises
\* Exception(<message>), as the unit tests of the handlers do.
StandInErrors == {"Generation failed"}
FeatureObjects == {"real"} \cup StandInErrors
FeatureCall(feature, out) ==
    IF feature = "real" THEN out ELSE Raised(Exc("Exception", feature), << >>)

\* A response: status code, detail of an error response, the fields a 422
\* names, the body of a 200, the exception the handler caught, and the
\* exception that escaped every handler.
Response(code, detail, fields, body, caught, tr) ==
    Returned([kind |-> "http", code |-> code, detail |-> detail, fields |-> fields,
              body |-> body, caught |-> caught, unhandled |-> NoExc], tr)

FailurePrefix(ep) ==
    CASE ep = "POST /api/v1/generate/text" -> "Text generation failed: "
      [] ep = "POST /api/v1/generate/text/batch" -> "Batch text generation failed: "
      [] ep = "POST /api/v1/embeddings/generate" -> "Embedding generation failed: "
      [] ep = "POST /api/v1/embeddings/generate/batch" ->
             "Batch embedding generation failed: "

\* A variant of the generation handlers' error response with a fixed detail.
FailureDetailFixed(ep, e) == FailurePrefix(ep)

\* detail=f"Text generation failed: {str(e)}" and its three siblings.
FailureDetail(ep, e) == FailurePrefix(ep) \o e.msg

\* detail="Failed to retrieve generation history" / "... embedding history"
HistoryFailureDetail(ep, e) ==
    IF ep = "GET /api/v1/generations/history"
    THEN "Failed to retrieve generation history"
    ELSE "Failed to retrieve embedding history"

\* POST /api/v1/generate/text and POST /api/v1/embeddings/generate
handle_generate(ep, req, feature, id, w) ==
    IF ValidationErrors(ep, req) # {}
    THEN Response(422, "", ValidationErrors(ep, req), NoResult, NoExc, << >>)
    ELSE LET out == FeatureCall(feature,
                        generate(EndpointOp(ep), "BigQueryConfig", req.text,
                                 req.model_name, ParamsOf(ep, req), id, w))
         IN IF out.status = "raised"
            THEN Response(500, FailureDetail(ep, out.exc), {}, NoResult, out.exc, out.trace)
            ELSE Response(200, "", {}, out.result, NoExc, out.trace)

\* len([r for r in result if 'error' not in r])
Successful(results) ==
    Cardinality({i \in 1..Len(results) : results[i].kind # "error"})

\* A variant of the batch handlers that takes the model and the parameters
\* from the last item instead of the first.
handle_batch_last_item(ep, reqs, feature, call, ws) ==
    IF \E i \in 1..Len(reqs) : ValidationErrors(ep, reqs[i]) # {}
    THEN Response(422, "", UNION {ValidationErrors(ep, reqs[i]) : i \in 1..Len(reqs)},
                  NoResult, NoExc, << >>)
    ELSE IF Len(reqs) = 0
    THEN Response(500, FailureDetail(ep, Exc("IndexError", "list index out of range")),
                  {}, NoResult, Exc("IndexError", "list index out of range"), << >>)
    ELSE LET out == FeatureCall(feature,
                        batch_generate(EndpointOp(ep), "BigQueryConfig",
                                       [i \in 1..Len(reqs) |-> reqs[i].text],
                                       reqs[Len(reqs)].model_name,
                                       ParamsOf(ep, reqs[Len(reqs)]), call, ws))
         IN IF out.status = "raised"
            THEN Response(500, FailureDetail(ep, out.exc), {}, NoResult, out.exc, out.trace)
            ELSE Response(200, "", {},
                          [results |-> out.result.results,
                           total_processed |-> Len(out.result.results),
                           successful |-> Successful(out.result.results)],
                          NoExc, out.trace)

\* POST /api/v1/generate/text/batch and POST /api/v1/embeddings/generate/batch
handle_batch(ep, reqs, feature, call, ws) ==
    IF \E i \in 1..Len(reqs) : ValidationErrors(ep, reqs[i]) # {}
    THEN Response(422, "", UNION {ValidationErrors(ep, reqs[i]) : i \in 1..Len(reqs)},
                  NoResult, NoExc, << >>)
    ELSE IF Len(reqs) = 0
    THEN \* first_req = requests[0]
         Response(500, FailureDetail(ep, Exc("IndexError", "list index out of range")),
                  {}, NoResult, Exc("IndexError", "list index out of range"), << >>)
    ELSE LET out == FeatureCall(feature,
                        batch_generate(EndpointOp(ep), "BigQueryConfig",
                                       [i \in 1..Len(reqs) |-> reqs[i].text],
                                       reqs[1].model_name, ParamsOf(ep, reqs[1]),
                                       call, ws))
         IN IF out.status = "raised"
            THEN Response(500, FailureDetail(ep, out.exc), {}, NoResult, out.exc, out.trace)
            ELSE Response(200, "", {},
                          [results |-> out.result.results,
                           total_processed |-> Len(out.result.results),
                           successful |-> Successful(out.result.results)],
                          NoExc, out.trace)

\* GET /api/v1/generations/history and GET /api/v1/embeddings/history
handle_history(ep, feature, w) ==
    LET out == FeatureCall(feature, get_history(EndpointOp(ep), "BigQueryConfig", w))
    IN IF out.status = "raised"
       THEN Response(500, HistoryFailureDetail(ep, out.exc), {}, NoResult, out.exc,
                     out.trace)
       ELSE Response(200, "", {},
                     [history |-> out.result.history, total |-> Len(out.result.history)],
                     NoExc, out.trace)

\* ------------------------------------------------------------ GET /health
\* An optional setting of the environment: unset, or set to a value (which
\* may be the empty string).
EnvUnset == [set |-> FALSE, value |-> ""]
EnvSet(v) == [set |-> TRUE, value |-> v]
\* Field(default=..., env=...): the variable's value, or the default.
Setting(var, default) == IF var.set THEN var.value ELSE default

LowerCase == "abcdefghijklmnopqrstuvwxyz"
UpperCase == "ABCDEFGHIJKLMNOPQRSTUVWXYZ"
\* str.upper on one character.
UpperChar(c) ==
    IF \E i \in 1..Len(LowerCase) : SubSeq(LowerCase, i, i) = c
    THEN LET i == CHOOSE j \in 1..Len(LowerCase) : SubSeq(LowerCase, j, j) = c
         IN SubSeq(UpperCase, i, i)
    ELSE c
\* str.upper
RECURSIVE Upper(_)
Upper(s) ==
    IF Len(s) = 0 THEN "" ELSE UpperChar(SubSeq(s, 1, 1)) \o Upper(SubSeq(s, 2, Len(s)))

\* @validator('environment'): one of dev, staging, prod, or ValueError.
AllowedEnvironments == {"dev", "staging", "prod"}
validate_environment(v) == v \in AllowedEnvironments

\* @validator('log_level'): upper-cased, one of five names, or ValueError.
AllowedLogLevels == {"DEBUG", "INFO", "WARNING", "ERROR", "CRITICAL"}
validate_log_level(v) == Upper(v) \in AllowedLogLevels

\* validate_config: Config() needs project_id, bucket_name and secret_key
\* (a missing one makes the constructor raise, an empty one fails the
\* loop) and runs the validators of environment and log_level on the
\* values the environment sets; every exception is caught and answered
\* False.  The other settings are left at their defaults.
validate_config(e) ==
    /\ validate_environment(Setting(e.environment, "dev"))
    /\ validate_log_level(Setting(e.log_level, "INFO"))
    /\ e.project_id # ""
    /\ e.bucket_name # ""
    /\ e.secret_key # ""

\* Outcomes of the connectivity probe: credential lookup, client
\* construction, list_datasets.
ProbeWorld0 == [credentials |-> "ok", client |-> "ok", list |-> "ok"]
ProbeWorlds ==
    {ProbeWorld0, [ProbeWorld0 EXCEPT !.credentials = "raise"],
     [ProbeWorld0 EXCEPT !.client = "raise"], [ProbeWorld0 EXCEPT !.list = "raise"]}

\* validate_bigquery_setup: get_bigquery_config (which needs the project
\* id), then validate_connection: get_client (cached handle, or credentials
\* and a new client) and list_datasets.  Every exception becomes False.
\* Returns the verdict and the connection cache it leaves.
validate_bigquery_setup(e, cfgSet, cliSet, w) ==
    IF ~cfgSet /\ e.project_id = ""
    THEN [ok |-> FALSE, config_global |-> FALSE, client_cached |-> FALSE]
    ELSE IF ~cliSet /\ (w.credentials # "ok" \/ w.client # "ok")
    THEN [ok |-> FALSE, config_global |-> TRUE, client_cached |-> FALSE]
    ELSE [ok |-> w.list = "ok", config_global |-> TRUE, client_cached |-> TRUE]

HealthWord(b) == IF b THEN "healthy" ELSE "unhealthy"

\* A variant of the health handler whose overall status follows the
\* connectivity probe alone.
health_check_probe_only(config_valid, bigquery_ok) ==
    Response(200, "", {},
             [status |-> HealthWord(bigquery_ok),
              bigquery_status |-> HealthWord(bigquery_ok)],
             NoExc, << >>)

\* health_check, given the verdicts of validate_config and
\* validate_bigquery_setup.
health_check(config_valid, bigquery_ok) ==
    Response(200, "", {},
             [status |-> HealthWord(config_valid /\ HealthWord(bigquery_ok) = "healthy"),
              bigquery_status |-> HealthWord(bigquery_ok)],
             NoExc, << >>)

\* =================================================================
\* Forecast metrics (Forecaster.get_forecast_metrics, _calculate_std)
\* =================================================================
RECURSIVE SumSeq(_)
SumSeq(xs) == IF xs = << >> THEN 0 ELSE Head(xs) + SumSeq(Tail(xs))
MaxSeq(xs) == CHOOSE m \in {xs[i] : i \in 1..Len(xs)} : \A i \in 1..Len(xs) : xs[i] <= m
MinSeq(xs) == CHOOSE m \in {xs[i] : i \in 1..Len(xs)} : \A i \in 1..Len(xs) : m <= xs[i]

\* (num / den) ** 0.5 in hundredths, rounded down.
RECURSIVE SqrtBetween(_, _, _, _)
SqrtBetween(lo, hi, num, den) ==
    IF lo = hi
    THEN lo
    ELSE LET mid == (lo + hi + 1) \div 2
         IN IF mid * mid * den <= num * 10000
            THEN SqrtBetween(mid, hi, num, den)
            ELSE SqrtBetween(lo, mid - 1, num, den)
SqrtCenti(num, den) == SqrtBetween(0, 100 * (num \div den + 1), num, den)

\* A variant of _calculate_std that divides by n rather than n - 1.
_calculate_std_population(values) ==
    IF Len(values) < 2
    THEN 0
    ELSE LET n == Len(values)
             total == SumSeq(values)
             squares == [i \in 1..n |-> (n * values[i] - total) * (n * values[i] - total)]
         IN SqrtCenti(SumSeq(squares), n * n * n)

\* _calculate_std, in hundredths.  mean = sum / n, so each deviation
\* x - mean is (n*x - sum) / n; the squared deviations are summed, divided
\* by n - 1 and the root is taken.
_calculate_std(values) ==
    IF Len(values) < 2
    THEN 0
    ELSE LET n == Len(values)
             total == SumSeq(values)
             squares == [i \in 1..n |-> (n * values[i] - total) * (n * values[i] - total)]
         IN SqrtCenti(SumSeq(squares), n * n * (n - 1))

\* Forecast results handed to get_forecast_metrics: the keys present, the
\* forecast values, the confidence level the result carries and the
\* model_performance map (confidence level and mape in hundredths).
SeriesValues == {0 - 2, 1, 2, 3, 5}
ValueLists == UNION {[1..n -> SeriesValues] : n \in 0..MaxValues}
ForecastResult0 ==
    [keys |-> {"forecast_values"}, forecast_values |-> <<1, 2, 3>>, confidence_level |-> 95,
     mape |-> 5]
ForecastResults ==
    {[ForecastResult0 EXCEPT !.forecast_values = v] : v \in ValueLists}
    \cup {[ForecastResult0 EXCEPT !.keys = k, !.forecast_values = v] :
             k \in SUBSET {"confidence_intervals", "confidence_level", "model_performance"},
             v \in {<< >>}}
    \cup {[ForecastResult0 EXCEPT !.keys = k \cup {"confidence_level"},
                                  !.forecast_values = << >>, !.confidence_level = 80] :
             k \in SUBSET {"confidence_intervals", "model_performance"}}
    \cup {[ForecastResult0 EXCEPT !.keys = {"forecast_values", "confidence_intervals",
                                            "model_performance"}]}

\* get_forecast_metrics.  The report lists its keys; a value whose key is
\* absent is 0.  mean_forecast is the quotient sum / n, kept as the pair.
get_forecast_metrics(fr) ==
    LET vs == fr.forecast_values
        derived == "forecast_values" \in fr.keys /\ vs # << >>
        ci == "confidence_intervals" \in fr.keys
        perf == "model_performance" \in fr.keys
    IN [kind |-> "metrics",
        keys |-> (IF derived THEN {"mean_forecast", "forecast_range", "forecast_std"}
                  ELSE {})
                 \cup (IF ci THEN {"has_confidence_intervals", "confidence_level"} ELSE {})
                 \cup (IF perf THEN {"mape"} ELSE {}),
        mean_forecast |-> IF derived THEN [num |-> SumSeq(vs), den |-> Len(vs)]
                          ELSE [num |-> 0, den |-> 1],
        forecast_range |-> IF derived THEN MaxSeq(vs) - MinSeq(vs) ELSE 0,
        forecast_std |-> IF derived THEN _calculate_std(vs) ELSE 0,
        has_confidence_intervals |-> ci,
        \* forecast_result.get('confidence_level', 0.95)
        confidence_level |-> IF ~ci THEN 0
                             ELSE IF "confidence_level" \in fr.keys THEN fr.confidence_level
                             ELSE 95,
        mape |-> IF perf THEN fr.mape ELSE 0]

\* =================================================================
\* Schema compliance (ContentGenerator._validate_schema_compliance)
\* =================================================================
\* Field names, in the order the content and the schema hold them.
FieldOrder == <<"a", "b">>
Fields == {FieldOrder[i] : i \in 1..Len(FieldOrder)}

\* A content maps each field to type(value).__name__, "absent" when the
\* content has no such key.
Contents == [Fields -> {"absent", "str", "int", "float"}]
\* A schema: whether it has the keys 'required' and 'properties', the
\* required list, and per field the declared type ("undeclared" when the
\* properties map has no such key).
Schemas ==
    [has_required : {FALSE}, required : {<< >>},
     has_properties : {FALSE}, properties : {[f \in Fields |-> "undeclared"]}]
    \cup [has_required : {TRUE}, required : {<<"a">>, <<"a", "b">>},
          has_properties : {FALSE}, properties : {[f \in Fields |-> "undeclared"]}]
    \cup [has_required : {FALSE}, required : {<< >>},
          has_properties : {TRUE},
          properties : [Fields -> {"undeclared", "string", "integer", "number", "boolean"}]]
    \cup [has_required : {TRUE}, required : {<<"a">>, <<"a", "b">>},
          has_properties : {TRUE},
          properties : [Fields -> {"undeclared", "string", "integer", "number", "boolean"}]]

\* A variant of the type test that accepts anything for a string.
MismatchIgnoringStrings(expected, actual) ==
    \/ expected = "integer" /\ actual \notin {"int", "int64"}
    \/ expected = "number" /\ actual \notin {"float", "int", "int64"}

\* The three type tests of the compliance check.
Mismatch(expected, actual) ==
    \/ expected = "string" /\ actual # "str"
    \/ expected = "integer" /\ actual \notin {"int", "int64"}
    \/ expected = "number" /\ actual \notin {"float", "int", "int64"}

\* f"{field}: expected {expected_type}, got {actual_type}"
MismatchMessage(field, expected, actual) ==
    field \o ": expected " \o expected \o ", got " \o actual

_validate_schema_compliance(content, schema) ==
    LET missing == IF schema.has_required
                   THEN SelectSeq(schema.required, LAMBDA f : content[f] = "absent")
                   ELSE << >>
        extra == IF schema.has_properties
                 THEN SelectSeq(FieldOrder,
                                LAMBDA f : /\ content[f] # "absent"
                                           /\ schema.properties[f] = "undeclared")
                 ELSE << >>
        wrong == IF schema.has_properties
                 THEN SelectSeq(FieldOrder,
                                LAMBDA f : /\ schema.properties[f] # "undeclared"
                                           /\ content[f] # "absent"
                                           /\ Mismatch(schema.properties[f], content[f]))
                 ELSE << >>
    IN [kind |-> "compliance",
        is_compliant |-> missing = << >> /\ wrong = << >>,
        missing_fields |-> missing,
        extra_fields |-> extra,
        type_mismatches |->
            [i \in 1..Len(wrong) |->
                MismatchMessage(wrong[i], schema.properties[wrong[i]], content[wrong[i]])]]

\* =================================================================
\* The filter clause (VectorSearch._build_filtered_vector_search_query)
\* =================================================================
\* A filter value: its Python type, str(value) for a scalar, and for a list
\* its elements, each with its type and str(element).
FilterStr(x) == [py |-> "str", text |-> x, items |-> << >>]
FilterNum(py, x) == [py |-> py, text |-> x, items |-> << >>]
FilterList(py, xs) ==
    [py |-> "list", text |-> "", items |-> [i \in 1..Len(xs) |-> [py |-> py, text |-> xs[i]]]]
FilterValues ==
    {FilterStr("doc"), FilterStr("It's"), FilterNum("int", "5"), FilterNum("int", "0"),
     FilterNum("float", "2.5"), FilterList("str", <<"a">>), FilterList("str", <<"a", "b">>),
     FilterList("int", <<"1">>), FilterList("int", <<"1", "2">>), FilterList("str", << >>)}
\* Filter maps over the columns category and score, in insertion order.
FilterColumns == <<"category", "score">>
MapsOver(values) ==
    {<< >>}
    \cup {<<[column |-> c, value |-> v]>> :
             c \in {FilterColumns[i] : i \in 1..Len(FilterColumns)}, v \in values}
    \cup {<<[column |-> FilterColumns[1], value |-> v1],
            [column |-> FilterColumns[2], value |-> v2]>> : v1, v2 \in values}
FilterMaps == MapsOver(FilterValues)

\* Values of the other types a caller can put in the map: None, a boolean
\* (an int to isinstance), a nested map.
OtherFilterValues ==
    {[py |-> "None", text |-> "None", items |-> << >>], FilterNum("bool", "True"),
     [py |-> "dict", text |-> "{'min': 1}", items |-> << >>]}
AnyFilterMaps == MapsOver(FilterValues \cup OtherFilterValues)

\* sep.join(parts)
RECURSIVE Join(_, _)
Join(sep, parts) ==
    IF parts = << >> THEN ""
    ELSE IF Len(parts) = 1 THEN parts[1]
    ELSE parts[1] \o sep \o Join(sep, Tail(parts))

\* A column name as the query quotes it, between backquotes.  (A string
\* literal of TLA+ cannot hold a lone backquote, hence the SubSeq.)
Backquote == SubSeq("`'", 1, 1)
Identifier(column) == (Backquote \o column) \o Backquote

\* The elements of a list value as they are rendered in an IN test.
QuotedItems(items) == [i \in 1..Len(items) |-> ("'" \o items[i].text) \o "'"]
PlainItems(items) == [i \in 1..Len(items) |-> items[i].text]

\* The condition of one entry; value[0] decides how a list is rendered.
Condition(column, value) ==
    CASE value.py = "str" -> Identifier(column) \o " = '" \o value.text \o "'"
      [] value.py \in {"int", "float", "bool"} -> Identifier(column) \o " = " \o value.text
      [] value.py = "list" ->
            Identifier(column) \o " IN ("
               \o (IF value.items[1].py = "str"
                   THEN Join(", ", QuotedItems(value.items))
                   ELSE Join(", ", PlainItems(value.items)))
               \o ")"

\* The entries the builder has a branch for: strings, numbers, lists.
HasCondition(entry) == entry.value.py \in {"str", "int", "float", "bool", "list"}

\* The WHERE clause _build_filtered_vector_search_query puts in its query.
\* An empty list fails at value[0].
_build_filtered_vector_search_query(filter_conditions) ==
    IF \E i \in 1..Len(filter_conditions) :
          /\ filter_conditions[i].value.py = "list"
          /\ filter_conditions[i].value.items = << >>
    THEN Raised(Exc("IndexError", "list index out of range"), << >>)
    ELSE LET written == SelectSeq(filter_conditions, HasCondition)
             where_clause ==
                 Join(" AND ", [i \in 1..Len(written) |->
                                   Condition(written[i].column, written[i].value)])
         IN Returned([kind |-> "query",
                      where_sql |-> IF where_clause # "" THEN "WHERE " \o where_clause
                                    ELSE ""],
                     << >>)

\* search_with_filter with its filter map: the query is built first; the
\* query event carries the WHERE clause submitted.
search_with_filter(cfg, filter_conditions, top_k, id, w) ==
    LET built == _build_filtered_vector_search_query(filter_conditions)
        out == search("search_with_filter", cfg, top_k, id, w)
    IN IF built.status = "raised" THEN built
       ELSE [out EXCEPT !.trace =
                <<EvRow("query", out.trace[1].table, out.trace[1].out,
                        [where_sql |-> built.result.where_sql])>> \o Tail(out.trace)]

\* =================================================================
\* Search metrics (VectorSearch.get_search_metrics)
\* =================================================================
\* A result's similarity_score: None or a number.
NoScore == [present |-> FALSE, value |-> 0]
Score(v) == [present |-> TRUE, value |-> v]
MetricScores == {NoScore, Score(0), Score(7), Score(0 - 3)}
\* A result's data: its category and type fields, "" when the row has no
\* such field.
MetricData == [category : {"", "doc"}, type : {"", "pdf"}]
MetricResults == [similarity_score : MetricScores, data : MetricData]
ResultLists == UNION {[1..n -> MetricResults] : n \in 0..MaxResults}

\* if result.get('similarity_score'): None and 0 are both false.
Truthy(score) == score.present /\ score.value # 0

\* The label a result is counted under: its category if it has one, else
\* its type, else none ("").
DataTypeOf(data) == IF data.category # "" THEN data.category ELSE data.type

\* get_search_metrics.  The report lists its keys; a value whose key is
\* absent is 0.  avg_similarity is the quotient sum / n, kept as the pair;
\* data_type_distribution maps a label to its count, 0 for a label the
\* dictionary does not hold.
get_search_metrics(search_results) ==
    LET kept == SelectSeq(search_results, LAMBDA r : Truthy(r.similarity_score))
        similarity_scores == [i \in 1..Len(kept) |-> kept[i].similarity_score.value]
        scored == similarity_scores # << >>
        labels == {DataTypeOf(search_results[i].data) : i \in 1..Len(search_results)} \ {""}
        data_types ==
            [l \in {"doc", "pdf"} |->
                Cardinality({i \in 1..Len(search_results) :
                                DataTypeOf(search_results[i].data) = l})]
    IN [kind |-> "metrics",
        keys |-> (IF scored
                  THEN {"avg_similarity", "max_similarity", "min_similarity",
                        "similarity_range"}
                  ELSE {})
                 \cup (IF labels # {} THEN {"data_type_distribution"} ELSE {}),
        avg_similarity |-> IF scored
                           THEN [num |-> SumSeq(similarity_scores),
                                 den |-> Len(similarity_scores)]
                           ELSE [num |-> 0, den |-> 1],
        max_similarity |-> IF scored THEN MaxSeq(similarity_scores) ELSE 0,
        min_similarity |-> IF scored THEN MinSeq(similarity_scores) ELSE 0,
        similarity_range |-> IF scored
                             THEN MaxSeq(similarity_scores) - MinSeq(similarity_scores)
                             ELSE 0,
        data_type_distribution |-> data_types]

\* =================================================================
\* Index efficiency (VectorIndexManager._calculate_efficiency_score)
\* =================================================================
\* A status field: missing from the record, None (get_index_status stores
\* getattr(result, <field>, None)), or an integer.
Missing == [present |-> FALSE, null |-> FALSE, value |-> 0]
Null == [present |-> TRUE, null |-> TRUE, value |-> 0]
Given(v) == [present |-> TRUE, null |-> FALSE, value |-> v]
IndexSizes ==
    {Missing, Null}
    \cup {Given(v) : v \in {0 - 200, 0 - 1, 0, 1, 3, 50, 100, 150, 199, 200, 201,
                            250, 300, 1000}}
\* Row counts; with 4 and 8 rows some scores lie half-way between two
\* hundredths.
RowCounts == {Missing, Null} \cup {Given(v) : v \in {0 - 1, 0, 1, 2, 3, 4, 5, 7, 8}}
IndexStatuses == [index_size_bytes : IndexSizes, row_count : RowCounts]

\* status.get(key, 0), for a field that is not None
GetOrZero(field) == IF field.present THEN field.value ELSE 0

\* ------------------------------------ the floating-point arithmetic
\* The score is computed in IEEE-754 doubles: every division, product and
\* difference is rounded to 53 significant bits, ties to even, and
\* round(score, 2) rounds the exact value of the double it is given.  The
\* magnitudes are kept as natural numbers written in base 2^15, least
\* significant digit first, so that no intermediate value leaves the
\* integers; a double is m * 2^e.  Divisors and factors lie below 2^15.
LimbBits == 15
Base == 32768
Precision == 53

RECURSIVE Pow2(_)
Pow2(k) == IF k = 0 THEN 1 ELSE 2 * Pow2(k - 1)

RECURSIVE BitLength(_)
BitLength(n) == IF n = 0 THEN 0 ELSE 1 + BitLength(n \div 2)

RECURSIVE Limbs(_)
Limbs(n) == IF n = 0 THEN << >> ELSE <<n % Base>> \o Limbs(n \div Base)

RECURSIVE LimbsValue(_)
LimbsValue(x) == IF Len(x) = 0 THEN 0 ELSE x[1] + Base * LimbsValue(Tail(x))

RECURSIVE Strip(_)
Strip(x) ==
    IF Len(x) > 0 /\ x[Len(x)] = 0 THEN Strip(SubSeq(x, 1, Len(x) - 1)) ELSE x

LimbAt(x, i) == IF i <= Len(x) THEN x[i] ELSE 0
BitsIn(x) == IF Len(x) = 0 THEN 0 ELSE LimbBits * (Len(x) - 1) + BitLength(x[Len(x)])

RECURSIVE MulFrom(_, _, _, _)
MulFrom(x, k, i, carry) ==
    IF i > Len(x) THEN Limbs(carry)
    ELSE <<(k * x[i] + carry) % Base>>
         \o MulFrom(x, k, i + 1, (k * x[i] + carry) \div Base)
\* x * k
MulSmall(x, k) == MulFrom(x, k, 1, 0)

RECURSIVE DivFrom(_, _, _, _)
DivFrom(x, q, i, rem) ==
    IF i = 0 THEN [quot |-> << >>, rem |-> rem]
    ELSE LET rest == DivFrom(x, q, i - 1, (rem * Base + x[i]) % q)
         IN [quot |-> Append(rest.quot, (rem * Base + x[i]) \div q), rem |-> rest.rem]
\* x divided by q: quotient and remainder
DivSmall(x, q) ==
    LET d == DivFrom(x, q, Len(x), 0) IN [quot |-> Strip(d.quot), rem |-> d.rem]

RECURSIVE AddFrom(_, _, _, _)
AddFrom(x, y, i, carry) ==
    IF i > Len(x) /\ i > Len(y) THEN Limbs(carry)
    ELSE <<(LimbAt(x, i) + LimbAt(y, i) + carry) % Base>>
         \o AddFrom(x, y, i + 1, (LimbAt(x, i) + LimbAt(y, i) + carry) \div Base)
Add(x, y) == AddFrom(x, y, 1, 0)

RECURSIVE SubFrom(_, _, _, _)
SubFrom(x, y, i, borrow) ==
    IF i > Len(x) THEN << >>
    ELSE <<(x[i] - LimbAt(y, i) - borrow + Base) % Base>>
         \o SubFrom(x, y, i + 1, IF x[i] - LimbAt(y, i) - borrow < 0 THEN 1 ELSE 0)
\* x - y, for y <= x
Sub(x, y) == Strip(SubFrom(x, y, 1, 0))

RECURSIVE LessFrom(_, _, _)
LessFrom(x, y, i) ==
    IF i = 0 THEN FALSE
    ELSE IF x[i] # y[i] THEN x[i] < y[i] ELSE LessFrom(x, y, i - 1)
Less(x, y) == IF Len(x) # Len(y) THEN Len(x) < Len(y) ELSE LessFrom(x, y, Len(x))

\* x * 2^k
ShiftLeft(x, k) ==
    [i \in 1..(k \div LimbBits) |-> 0] \o MulSmall(x, Pow2(k % LimbBits))

\* x / 2^k for k >= 1: the quotient, the bit just below it, and whether
\* any bit below that one is set.
ShiftRight(x, k) ==
    LET whole == (k - 1) \div LimbBits
        upper == DivSmall(SubSeq(x, whole + 1, Len(x)), Pow2((k - 1) % LimbBits))
    IN [keep |-> DivSmall(upper.quot, 2).quot,
        guard |-> LimbAt(upper.quot, 1) % 2 = 1,
        rest |-> upper.rem # 0 \/ \E i \in 1..whole : LimbAt(x, i) # 0]

\* Round to nearest, a value half-way to the even neighbour.
HalfEven(cut) ==
    IF cut.guard /\ (cut.rest \/ LimbAt(cut.keep, 1) % 2 = 1)
    THEN Add(cut.keep, <<1>>) ELSE cut.keep

\* The double nearest to m * 2^e; sticky: a nonzero tail was cut off below m.
RoundToDouble(m, e, sticky) ==
    LET d == BitsIn(m) - Precision
        cut == ShiftRight(m, d)
    IN IF d <= 0 THEN [m |-> m, e |-> e]
       ELSE [m |-> HalfEven([cut EXCEPT !.rest = cut.rest \/ sticky]), e |-> e + d]

\* x / q and x * k in doubles
DoubleDiv(x, q) ==
    LET k == Precision + 2 + BitLength(q)
        d == DivSmall(ShiftLeft(x.m, k), q)
    IN RoundToDouble(d.quot, x.e - k, d.rem # 0)
DoubleMul(x, k) == RoundToDouble(MulSmall(x.m, k), x.e, FALSE)

\* round(s, 2) in hundredths, for a double s with s.e < 0: the exact value
\* of 100 * s, rounded half to even.
Round2(s) == LimbsValue(HalfEven(ShiftRight(MulSmall(s.m, 100), 0 - s.e)))

\* score = max(0, 100 - (bytes_per_row / optimal_bytes_per_row) * 50) and
\* round(score, 2), in hundredths, for bytes # 0 and row_count > 0.  The
\* sign of bytes is the sign of the product, so the difference is a sum of
\* magnitudes when bytes is negative.
RoundedScore(bytes, row_count) ==
    LET bytes_per_row ==
            DoubleDiv([m |-> Limbs(IF bytes < 0 THEN 0 - bytes ELSE bytes), e |-> 0],
                      row_count)
        product == DoubleMul(DoubleDiv(bytes_per_row, 100), 50)
        hundred == ShiftLeft(Limbs(100), 0 - product.e)
    IN IF bytes < 0
       THEN Round2(RoundToDouble(Add(hundred, product.m), product.e, FALSE))
       ELSE IF ~Less(product.m, hundred) THEN 0
       ELSE Round2(RoundToDouble(Sub(hundred, product.m), product.e, FALSE))

\* _calculate_efficiency_score, in hundredths.  A None row count fails the
\* comparison row_count > 0, a None size the division: the handler answers
\* 0.0 to every exception.  A negative row count leaves bytes_per_row 0.
_calculate_efficiency_score(status) ==
    IF status.row_count.null THEN 0
    ELSE LET row_count == GetOrZero(status.row_count)
         IN IF row_count = 0 THEN 0
            ELSE IF row_count < 0 THEN 10000
            ELSE IF status.index_size_bytes.null THEN 0
            ELSE LET bytes == GetOrZero(status.index_size_bytes)
                 IN IF bytes = 0 THEN 10000
                    ELSE RoundedScore(bytes, row_count)

\* =================================================================
\* Object references (src/multimodal/object_ref.py)
\* =================================================================
\* s.startswith(prefix), s.count(c) for a one-character c
StartsWith(s, prefix) == Len(s) >= Len(prefix) /\ SubSeq(s, 1, Len(prefix)) = prefix
CountOf(s, c) == Cardinality({i \in 1..Len(s) : SubSeq(s, i, i) = c})

ObjectRefs ==
    {"gs://bucket/path", "gs://bucket/dir/file", "gs://bucket", "gs://bucket/", "gs://",
     "gs:///path", "gs:/bucket/path", "s3://bucket/path", "bucket/path", "/bucket/path", ""}
ObjectTypes == {"auto", "image", "document"}
BucketNames == {"", "bucket", "my-bucket", "a/b"}
FilePaths == {"", "path", "dir/file", "/x"}

\* _validate_object_ref: the two tests, in order.
_validate_object_ref(object_ref, object_type) ==
    IF ~StartsWith(object_ref, "gs://")
    THEN Raised(Exc("ValueError", "ObjectRef must start with 'gs://'"), << >>)
    ELSE IF ~(CountOf(object_ref, "/") >= 2)
    THEN Raised(Exc("ValueError", "ObjectRef must have format: gs://bucket/path"), << >>)
    ELSE Returned(PyNoneResult, << >>)

\* _store_object_ref_metadata: one insert into object_refs_metadata; the
\* failing item access on the config, per-row errors and exceptions are
\* logged and dropped.
_store_object_ref_metadata(cfg, object_ref, bucket_name, file_path, object_type, store) ==
    IF ConfigItem(cfg) # NoExc THEN << >>
    ELSE <<EvRow("insert_rows_json", "object_refs_metadata", store,
                 [object_ref |-> object_ref, bucket_name |-> bucket_name,
                  file_path |-> file_path, object_type |-> object_type])>>

\* create_object_ref: build the reference, validate it, store its metadata,
\* return it; an exception is logged and raised again.
create_object_ref(cfg, bucket_name, file_path, object_type, store) ==
    LET object_ref == ("gs://" \o bucket_name) \o ("/" \o file_path)
        valid == _validate_object_ref(object_ref, object_type)
    IN IF valid.status = "raised" THEN valid
       ELSE Returned([kind |-> "object_ref", object_ref |-> object_ref],
                     _store_object_ref_metadata(cfg, object_ref, bucket_name, file_path,
                                                object_type, store))

\* =================================================================
\* Object-table analysis (ObjectTableProcessor._process_analysis_results)
\* =================================================================
\* A file row: its file_type ("" when the row has no such attribute) and
\* its file_size (missing, or a number of bytes).
FileRows == [file_type : {"", "pdf", "png"},
             file_size : {Missing, Given(0), Given(10), Given(30)}]
FileLists == UNION {[1..n -> FileRows] : n \in 0..MaxFiles}
AnalysisTypes == {"metadata", "text_extraction", "image_analysis"}

\* getattr(result, 'file_type', 'unknown'), getattr(result, 'file_size', 0)
FileTypeOf(row) == IF row.file_type = "" THEN "unknown" ELSE row.file_type
FileSizeOf(row) == GetOrZero(row.file_size)

\* float('inf'), or a number
Infinity == [inf |-> TRUE, value |-> 0]
Finite(v) == [inf |-> FALSE, value |-> v]

\* The insights for rows that carry no text or image attributes.
ContentInsights(results, analysis_type) ==
    CASE analysis_type = "text_extraction" ->
            [kind |-> "text", total_text_length |-> 0, total_word_count |-> 0]
      [] analysis_type = "image_analysis" ->
            [kind |-> "image", total_images |-> Len(results),
             unknown_format |-> Len(results)]
      [] OTHER -> [kind |-> "none"]

\* _process_analysis_results.  file_types maps a type to its count, 0 for a
\* type the dictionary does not hold; avg_size is the quotient kept as a
\* pair.  Only the non-zero sizes enter min_size, max_size and the total;
\* min_size starts from infinity and max_size from 0, so max_size is never
\* below 0; the total is divided by the number of all rows.
_process_analysis_results(results, analysis_type) ==
    LET sized == SelectSeq(results, LAMBDA r : FileSizeOf(r) # 0)
        sizes == [i \in 1..Len(sized) |-> FileSizeOf(sized[i])]
        total_size == SumSeq(sizes)
    IN [kind |-> "analysis",
        analysis_type |-> analysis_type,
        total_files |-> Len(results),
        file_types |-> [t \in {"unknown", "pdf", "png"} |->
                           Cardinality({i \in 1..Len(results) : FileTypeOf(results[i]) = t})],
        size_distribution |->
            [min_size |-> IF sizes = << >> THEN Infinity ELSE Finite(MinSeq(sizes)),
             max_size |-> MaxSeq(<<0>> \o sizes),
             avg_size |-> IF total_size > 0
                          THEN [num |-> total_size, den |-> Len(results)]
                          ELSE [num |-> 0, den |-> 1]],
        content_insights |-> IF results = << >> THEN [kind |-> "none"]
                             ELSE ContentInsights(results, analysis_type)]

\* =================================================================
\* The generation query builders (_build_generate_text_query,
\* _build_generate_embedding_query, _build_ai_generate_query).  A query is
\* written with every run of white space as one space.
\* =================================================================
\* Additional keyword parameters, in call order: a name and a value (a
\* string, a number, a boolean or a list, as a filter value is).
KwargEntries ==
    {[key |-> "candidate_count", value |-> FilterNum("int", "3")],
     [key |-> "echo", value |-> FilterNum("bool", "True")],
     [key |-> "presence_penalty", value |-> FilterNum("float", "0.5")],
     [key |-> "task_type", value |-> FilterStr("retrieval_query")],
     [key |-> "stop_sequences", value |-> FilterList("str", <<"END", "STOP">>)]}
Kwargs ==
    {<< >>} \cup {<<e>> : e \in KwargEntries}
    \cup {<<x[1], x[2]>> : x \in {y \in KwargEntries \X KwargEntries : y[1] # y[2]}}

\* The prompts and contents handed to the builders.
QueryPrompts == Prompts \cup {"x' OR '1'='1"}

\* str(x) of a number kept in tenths: 7 is 0.7.
TenthsText(n) == (ToString(n \div 10) \o ".") \o ToString(n % 10)

\* The text without its quote characters.
RECURSIVE WithoutQuotes(_)
WithoutQuotes(text) ==
    IF text = "" THEN ""
    ELSE (IF SubSeq(text, 1, 1) = "'" THEN "" ELSE SubSeq(text, 1, 1))
            \o WithoutQuotes(SubSeq(text, 2, Len(text)))

\* A variant that takes the quote characters out of the text.
SqlLiteralWithoutQuotes(text) == ("'" \o WithoutQuotes(text)) \o "'"

\* '{text}': the text between single quotes, as it is.
SqlLiteral(text) == ("'" \o text) \o "'"

\* The values the builders write as an option: numbers (a boolean is an
\* int to isinstance) and strings.
OptionWritten(entry) == entry.value.py \in {"int", "float", "bool", "str"}

\* {value} as {key} for a number, '{value}' as {key} for a string.
OptionText(entry) ==
    IF entry.value.py = "str"
    THEN (SqlLiteral(entry.value.text) \o " as ") \o entry.key
    ELSE (entry.value.text \o " as ") \o entry.key

OptionTexts(kwargs) ==
    LET written == SelectSeq(kwargs, OptionWritten)
    IN [i \in 1..Len(written) |-> OptionText(written[i])]

\* The four sampling options every text and content query carries.
SamplingOptions(params, max_tokens_name) ==
    Join(", ", <<TenthsText(params.temperature) \o " as temperature",
                 (ToString(params.max_tokens) \o " as ") \o max_tokens_name,
                 TenthsText(params.top_p) \o " as top_p",
                 ToString(params.top_k) \o " as top_k">>)

_build_generate_text_query(prompt, model_name, params, kwargs) ==
    "SELECT ml_generate_text_result as generated_text, "
       \o "ml_generate_text_metadata as metadata FROM ML.GENERATE_TEXT( MODEL "
       \o Identifier(model_name) \o ", (SELECT " \o SqlLiteral(prompt)
       \o " as prompt), STRUCT( " \o SamplingOptions(params, "max_output_tokens")
       \o Join("", [i \in 1..Len(OptionTexts(kwargs)) |->
                        (IF i = 1 THEN " , " ELSE ", ") \o OptionTexts(kwargs)[i]])
       \o " ) as options )"

_build_generate_embedding_query(content, model_name, kwargs) ==
    "SELECT ml_generate_embedding_result, ml_generate_embedding_metadata "
       \o "FROM ML.GENERATE_EMBEDDING( MODEL "
       \o Identifier(model_name) \o ", (SELECT " \o SqlLiteral(content) \o " as content) "
       \o (IF kwargs # << >>
           THEN (", STRUCT(" \o Join(", ", OptionTexts(kwargs))) \o ")"
           ELSE "")
       \o ")"

_build_ai_generate_query(prompt, model_name, params, kwargs) ==
    "SELECT AI.GENERATE( " \o SqlLiteral(prompt) \o ", " \o SqlLiteral(model_name)
       \o ", STRUCT( " \o SamplingOptions(params, "max_tokens")
       \o " ) ) as ai_generate_result, CURRENT_TIMESTAMP() as timestamp, "
       \o "AI.GENERATE_METADATA() as ai_generate_metadata"

\* The builder of each generation operation.
BuilderOf(op) ==
    CASE op = "generate_text" -> "_build_generate_text_query"
      [] op = "generate_embedding" -> "_build_generate_embedding_query"
      [] op = "generate_content" -> "_build_ai_generate_query"

BuildQuery(op, prompt, model_name, kwargs) ==
    CASE op = "generate_text" ->
            _build_generate_text_query(prompt, model_name, DefaultParams(op), kwargs)
      [] op = "generate_embedding" ->
            _build_generate_embedding_query(prompt, model_name, kwargs)
      [] op = "generate_content" ->
            _build_ai_generate_query(prompt, model_name, DefaultParams("generate_text"),
                                     kwargs)

\* The parameters generate_text and generate_content echo:
\* {'temperature': ..., 'max_tokens': ..., 'top_p': ..., 'top_k': ..., **kwargs}
ParametersWith(op, kwargs) ==
    [temperature |-> DefaultParams(op).temperature,
     max_tokens |-> DefaultParams(op).max_tokens,
     top_p |-> DefaultParams(op).top_p, top_k |-> DefaultParams(op).top_k,
     kwargs |-> kwargs]

\* =================================================================
\* Vector indexes (VectorIndexManager.create_vector_index /
\* drop_vector_index)
\* =================================================================
\* The warehouse's indexes by name, and the rows of vector_indexes_metadata
\* (the index_name of each row, in insertion order).
NoIndexes == [indexes |-> {}, metadata |-> << >>]

IndexTables == {"p.d.docs"}
EmbeddingColumns == {"embedding"}
GivenIndexNames == {"", "idx"}

\* table_id.split('.')[-1]
RECURSIVE LastPart(_)
LastPart(s) ==
    IF \E i \in 1..Len(s) : SubSeq(s, i, i) = "."
    THEN LastPart(SubSeq(s, (CHOOSE i \in 1..Len(s) : /\ SubSeq(s, i, i) = "."
                                                      /\ \A j \in 1..(i - 1) :
                                                            SubSeq(s, j, j) # ".") + 1,
                         Len(s)))
    ELSE s

\* The name create_vector_index uses: the one given, or
\* {table_name}_{embedding_column}_vector_index.
IndexNameFor(index_name, table_id, embedding_column) ==
    IF index_name # "" THEN index_name
    ELSE ((LastPart(table_id) \o "_") \o embedding_column) \o "_vector_index"

IndexNames == {IndexNameFor(n, t, c) : n \in GivenIndexNames, t \in IndexTables,
                                        c \in EmbeddingColumns}

\* Outcomes of what one index call touches: the CREATE or DROP statement
\* (the warehouse rejects a CREATE of an existing index and a DROP of a
\* missing one), and the metadata insert or DELETE.
IndexWorlds ==
    [statement : {"ok"} \cup WarehouseErrors, store : InsertOuts,
     remove : {"ok", "access denied"}]
StatementOut(w, accepted) ==
    IF ~accepted THEN "rejected"
    ELSE IF w.statement = "ok" THEN "ok" ELSE "raise"
StatementError(w, accepted, what) ==
    IF ~accepted THEN Exc("GoogleAPIError", what) ELSE WarehouseError(w.statement)

\* _store_index_metadata: one insert into vector_indexes_metadata; the
\* failing item access on the config, per-row errors and exceptions are
\* logged and dropped.
_store_index_metadata(cfg, index_name, w) ==
    IF ConfigItem(cfg) # NoExc THEN << >>
    ELSE <<EvRow("insert_rows_json", "vector_indexes_metadata", w.store,
                 [index_name |-> index_name])>>

\* A variant of the removal that lets a failure of the DELETE escape.
_remove_index_metadata_reraising(cfg, index_name, w) ==
    IF ConfigItem(cfg) # NoExc THEN [exc |-> NoExc, trace |-> << >>]
    ELSE [exc |-> IF w.remove = "ok" THEN NoExc ELSE WarehouseError(w.remove),
          trace |-> <<EvRow("DELETE", "vector_indexes_metadata",
                            IF w.remove = "ok" THEN "ok" ELSE "raise",
                            [index_name |-> index_name])>>]

\* _remove_index_metadata: one DELETE on vector_indexes_metadata; every
\* exception is logged and dropped.
_remove_index_metadata(cfg, index_name, w) ==
    IF ConfigItem(cfg) # NoExc THEN [exc |-> NoExc, trace |-> << >>]
    ELSE [exc |-> NoExc,
          trace |-> <<EvRow("DELETE", "vector_indexes_metadata",
                            IF w.remove = "ok" THEN "ok" ELSE "raise",
                            [index_name |-> index_name])>>]

\* create_vector_index.  exists: the warehouse already has an index of the
\* name.
create_vector_index(cfg, given, table_id, embedding_column, exists, w) ==
    LET index_name == IndexNameFor(given, table_id, embedding_column)
        out == StatementOut(w, ~exists)
        create == <<Ev("CREATE VECTOR INDEX", index_name, out)>>
    IN IF out # "ok"
       THEN Raised(StatementError(w, ~exists, "Already Exists"), create)
       ELSE Returned([kind |-> "index", index_name |-> index_name],
                     create \o _store_index_metadata(cfg, index_name, w))

\* drop_vector_index: True after the DROP statement and the removal of the
\* metadata, False on any exception.
drop_vector_index(cfg, index_name, exists, w) ==
    LET out == StatementOut(w, exists)
        drop == <<Ev("DROP VECTOR INDEX", index_name, out)>>
        removed == _remove_index_metadata(cfg, index_name, w)
    IN IF out # "ok"
       THEN Returned([kind |-> "bool", value |-> FALSE], drop)
       ELSE IF removed.exc # NoExc
       THEN Returned([kind |-> "bool", value |-> FALSE], drop \o removed.trace)
       ELSE Returned([kind |-> "bool", value |-> TRUE], drop \o removed.trace)

\* The warehouse after the calls of a trace: indexes created and dropped,
\* metadata rows inserted and deleted.
RECURSIVE IndexStoreAfter(_, _)
IndexStoreAfter(store, tr) ==
    IF tr = << >> THEN store
    ELSE LET e == Head(tr)
             next ==
                 CASE e.call = "CREATE VECTOR INDEX" /\ e.out = "ok" ->
                         [store EXCEPT !.indexes = @ \cup {e.table}]
                   [] e.call = "DROP VECTOR INDEX" /\ e.out = "ok" ->
                         [store EXCEPT !.indexes = @ \ {e.table}]
                   [] e.call = "insert_rows_json" /\ e.out = "ok" ->
                         [store EXCEPT !.metadata = Append(@, e.row.index_name)]
                   [] e.call = "DELETE" /\ e.out = "ok" ->
                         [store EXCEPT !.metadata =
                             SelectSeq(@, LAMBDA n : n # e.row.index_name)]
                   [] OTHER -> store
         IN IndexStoreAfter(next, Tail(tr))

\* =================================================================
\* GeminiIntegration.generate_text_with_gemini and
\* generate_embeddings_with_gemini (src/generative_ai/gemini_integration.py)
\* =================================================================
GeminiOps == {"generate_text_with_gemini", "generate_embeddings_with_gemini"}
GeminiOperator(op) ==
    IF op = "generate_text_with_gemini" THEN "bigframes.ml.llm.GeminiTextGenerator"
    ELSE "bigframes.ml.llm.TextEmbeddingGenerator"
GeminiEmptyResultError(op) ==
    Exc("ValueError",
        IF op = "generate_text_with_gemini"
        THEN "No results returned from Gemini text generation"
        ELSE "No results returned from Gemini embedding generation")
GeminiGenerationType(op) == IF op = "generate_text_with_gemini" THEN "text" ELSE "embedding"
GeminiModels(op) ==
    IF op = "generate_text_with_gemini" THEN {"gemini-pro"} ELSE {"text-embedding-004"}

\* The parameters each method records: temperature (tenths) and max_tokens
\* for the text, the additional keywords (none here) for the embedding.
GeminiParams(op) ==
    IF op = "generate_text_with_gemini" THEN [temperature |-> 7, max_tokens |-> 1024]
    ELSE << >>

\* results[0].get('gemini_text_result', '') / .get('gemini_embedding_result', [])
GeminiField(op, w) ==
    IF w.field = "null" THEN PyNone
    ELSE IF op = "generate_embeddings_with_gemini"
         THEN PyList(IF w.field = "absent" THEN << >> ELSE w.vector)
         ELSE PyStr(IF w.field = "absent" THEN "" ELSE w.text)

\* str(x) of a row value: a list of integers is written [1, 2].
StrOf(x) ==
    CASE x.py = "None" -> "None"
      [] x.py = "str" -> x.str
      [] x.py = "list" ->
            ("[" \o Join(", ", [i \in 1..Len(x.list) |-> ToString(x.list[i])])) \o "]"

\* generated_text of the audit row: the text as it is, str(embeddings).
GeminiGeneratedText(op, val) ==
    IF op = "generate_text_with_gemini" THEN val ELSE PyStr(StrOf(val))

\* _store_gemini_generation: one insert into gemini_generations; the
\* failing item access on the config, per-row errors and exceptions are
\* logged and dropped.
_store_gemini_generation(cfg, id, prompt, generated_text, model_name, generation_type, out) ==
    IF ConfigItem(cfg) # NoExc THEN << >>
    ELSE <<EvRow("insert_rows_json", "gemini_generations", out,
                 [kind |-> "gemini_generation", id |-> id, prompt |-> prompt,
                  generated_text |-> generated_text, model_name |-> model_name,
                  generation_type |-> generation_type])>>

\* The worlds of a Gemini generation: the audit row needs nothing resolved
\* at run time.
GeminiWorlds == {w \in GenWorlds : w.prep = "ok"}

\* generate_text_with_gemini / generate_embeddings_with_gemini
generate_with_gemini(op, cfg, prompt, model, id, w) ==
    IF w.query \in WarehouseErrors
    THEN Raised(WarehouseError(w.query), <<Ev("query", GeminiOperator(op), "raise")>>)
    ELSE IF w.query = "rows0"
    THEN Raised(GeminiEmptyResultError(op), <<Ev("query", GeminiOperator(op), "rows0")>>)
    ELSE LET val == GeminiField(op, w)
             tr == <<Ev("query", GeminiOperator(op), "row")>>
                     \o _store_gemini_generation(cfg, id, prompt,
                                                 GeminiGeneratedText(op, val), model,
                                                 GeminiGenerationType(op), w.store)
         IN IF val.py = "None"
            THEN \* len(None) when logging the completion, after the audit insert
                 Raised(Exc("TypeError", "object of type 'NoneType' has no len()"), tr)
            ELSE Returned([kind |-> op, id |-> id, value |-> val, model_name |-> model,
                           parameters |-> GeminiParams(op),
                           input_length |-> Len(prompt), output_length |-> PyLen(val)],
                          tr)

\* =================================================================
\* ContentGenerator.generate_structured_content
\* =================================================================
\* The ai_generate_result of the first row: a content, None, or {} when
\* the row has no such field.
NoContent == [f \in Fields |-> "absent"]
StructuredContents ==
    {NoContent, [NoContent EXCEPT !["a"] = "str"], [NoContent EXCEPT !["a"] = "int"],
     [f \in Fields |-> "str"]}
StructuredSchemas ==
    {sc \in Schemas :
        /\ sc.required \in {<< >>, <<"a">>}
        /\ sc.properties \in {[f \in Fields |-> "undeclared"],
                               [[f \in Fields |-> "undeclared"] EXCEPT !["a"] = "string"]}}
StructuredWorld0 == [query |-> "row", field |-> "value", content |-> NoContent, store |-> "ok"]
StructuredWorlds ==
    {[StructuredWorld0 EXCEPT !.query = q] : q \in {"rows0"} \cup WarehouseErrors}
    \cup {[StructuredWorld0 EXCEPT !.field = f, !.store = st] :
             f \in {"absent", "null"}, st \in InsertOuts}
    \cup {[StructuredWorld0 EXCEPT !.content = c, !.store = st] :
             c \in StructuredContents, st \in InsertOuts}

\* _validate_schema_compliance(None, schema): `field not in content` and
\* `for field in content` fail on None.
ComplianceOfNone(schema) ==
    IF schema.has_required /\ schema.required # << >>
    THEN Raised(Exc("TypeError", "argument of type 'NoneType' is not iterable"), << >>)
    ELSE IF schema.has_properties
    THEN Raised(Exc("TypeError", "'NoneType' object is not iterable"), << >>)
    ELSE Returned([kind |-> "compliance", is_compliant |-> TRUE, missing_fields |-> << >>,
                   extra_fields |-> << >>, type_mismatches |-> << >>], << >>)

\* _store_structured_generation: one insert into generated_content; the
\* failing item access on the config, per-row errors and exceptions are
\* logged and dropped.
_store_structured_generation(cfg, id, prompt, schema, model_name, out) ==
    IF ConfigItem(cfg) # NoExc THEN << >>
    ELSE <<EvRow("insert_rows_json", "generated_content", out,
                 [kind |-> "ai_generate_structured", id |-> id, prompt |-> prompt,
                  schema |-> schema, model_name |-> model_name])>>

\* generate_structured_content, with temperature 0.3 (in tenths)
generate_structured_content(cfg, prompt, schema, model, id, w) ==
    IF w.query \in WarehouseErrors
    THEN Raised(WarehouseError(w.query), <<Ev("query", "structured AI.GENERATE", "raise")>>)
    ELSE IF w.query = "rows0"
    THEN Raised(Exc("ValueError", "No results returned from structured AI.GENERATE"),
                <<Ev("query", "structured AI.GENERATE", "rows0")>>)
    ELSE LET content == IF w.field = "absent" THEN NoContent ELSE w.content
             compliance == IF w.field = "null" THEN ComplianceOfNone(schema)
                           ELSE Returned(_validate_schema_compliance(content, schema), << >>)
             tr == <<Ev("query", "structured AI.GENERATE", "row")>>
                     \o _store_structured_generation(cfg, id, prompt, schema, model, w.store)
         IN IF compliance.status = "raised"
            THEN \* raised while logging the completion, after the audit insert
                 Raised(compliance.exc, tr)
            ELSE Returned([kind |-> "generate_structured_content", id |-> id,
                           is_none |-> w.field = "null", structured_content |-> content,
                           schema |-> schema, model_name |-> model,
                           parameters |-> [temperature |-> 3],
                           prompt_length |-> Len(prompt),
                           schema_compliance |-> compliance.result],
                          tr)

\* =================================================================
\* The connection provider (src/config/bigquery_config.py)
\* =================================================================
\* get_bigquery_config: the module global, constructed on first use.
\* BigQueryConfig.__init__ raises when no project id is configured.
\* Returns the outcome and whether the global is set afterwards.
get_bigquery_config(e, cfgSet) ==
    IF cfgSet
    THEN [out |-> Returned([kind |-> "config", handle |-> 0], << >>), config_global |-> TRUE]
    ELSE IF e.project_id = ""
    THEN [out |-> Raised(Exc("ValueError",
                             "GOOGLE_CLOUD_PROJECT environment variable is required"),
                         << >>),
          config_global |-> FALSE]
    ELSE [out |-> Returned([kind |-> "config", handle |-> 0], << >>), config_global |-> TRUE]

\* A variant of get_client that constructs a handle on every call.
get_client_uncached(cached, n, w) ==
    IF w.credentials = "raise"
    THEN [out |-> Raised(Exc("DefaultCredentialsError", "credentials not found"), << >>),
          client_handle |-> cached, handles |-> n]
    ELSE IF w.client = "raise"
    THEN [out |-> Raised(Exc("Exception", "client creation failed"),
                         <<Ev("bigquery.Client", "", "raise")>>),
          client_handle |-> cached, handles |-> n]
    ELSE [out |-> Returned([kind |-> "client", handle |-> n + 1],
                           <<Ev("bigquery.Client", "", "ok")>>),
          client_handle |-> n + 1, handles |-> n + 1]

\* BigQueryConfig.get_client.  cached is the handle _client holds (0 for
\* None), n the number of handles constructed so far.  Returns the outcome,
\* the handle cached afterwards and the number of handles constructed.
get_client(cached, n, w) ==
    IF cached # 0
    THEN [out |-> Returned([kind |-> "client", handle |-> cached], << >>),
          client_handle |-> cached, handles |-> n]
    ELSE IF w.credentials = "raise"
    THEN [out |-> Raised(Exc("DefaultCredentialsError", "credentials not found"), << >>),
          client_handle |-> 0, handles |-> n]
    ELSE IF w.client = "raise"
    THEN [out |-> Raised(Exc("Exception", "client creation failed"),
                         <<Ev("bigquery.Client", "", "raise")>>),
          client_handle |-> 0, handles |-> n]
    ELSE [out |-> Returned([kind |-> "client", handle |-> n + 1],
                           <<Ev("bigquery.Client", "", "ok")>>),
          client_handle |-> n + 1, handles |-> n + 1]

\* A variant of get_bigquery_client that keeps a config whose construction
\* failed.
get_bigquery_client_keeping_failed(e, cfgSet, cached, n, w) ==
    LET cfg == get_bigquery_config(e, cfgSet)
        gc == get_client(cached, n, w)
    IN IF cfg.out.status = "raised"
       THEN [out |-> cfg.out, config_global |-> TRUE,
             client_handle |-> cached, handles |-> n]
       ELSE [out |-> gc.out, config_global |-> TRUE,
             client_handle |-> gc.client_handle, handles |-> gc.handles]

\* get_bigquery_client: get_bigquery_config().get_client()
get_bigquery_client(e, cfgSet, cached, n, w) ==
    LET cfg == get_bigquery_config(e, cfgSet)
        gc == get_client(cached, n, w)
    IN IF cfg.out.status = "raised"
       THEN [out |-> cfg.out, config_global |-> cfg.config_global,
             client_handle |-> cached, handles |-> n]
       ELSE [out |-> gc.out, config_global |-> cfg.config_global,
             client_handle |-> gc.client_handle, handles |-> gc.handles]

\* The constructor the nine feature classes share:
\*     self.client = client or get_bigquery_client()
\*     self.config = get_bigquery_config()
\* given: a client was passed in.  patched: what the feature module's
\* name get_bigquery_config is replaced by, together with
\* get_bigquery_client: "no" for the real providers, otherwise the kind of
\* object the replacement returns (the unit tests return the Mock of
\* conftest.py); the connection provider is then never reached.  Returns
\* the object (its config kind), or the exception the provider raised,
\* with the connection cache left behind.
Patches == {"no"} \cup (ConfigKinds \ {"BigQueryConfig"})
feature_init(e, cfgSet, cached, n, given, patched, w) ==
    IF patched # "no"
    THEN [out |-> Returned([kind |-> "feature", config |-> patched], << >>),
          config_global |-> cfgSet, client_handle |-> cached, handles |-> n]
    ELSE LET got == IF given
                    THEN [out |-> Returned([kind |-> "client", handle |-> 0], << >>),
                          config_global |-> cfgSet, client_handle |-> cached,
                          handles |-> n]
                    ELSE get_bigquery_client(e, cfgSet, cached, n, w)
             cfg == get_bigquery_config(e, got.config_global)
         IN IF got.out.status = "raised"
            THEN got
            ELSE IF cfg.out.status = "raised"
            THEN [out |-> Raised(cfg.out.exc, got.out.trace),
                  config_global |-> cfg.config_global,
                  client_handle |-> got.client_handle, handles |-> got.handles]
            ELSE [out |-> Returned([kind |-> "feature", config |-> "BigQueryConfig"],
                                   got.out.trace),
                  config_global |-> cfg.config_global,
                  client_handle |-> got.client_handle, handles |-> got.handles]

\* Outcomes of the credential lookup and the client construction.
ProviderWorlds == {w \in ProbeWorlds : w.list = "ok"}

\* An exception that no handler caught: the application answers 500.
Unhandled(e) ==
    Returned([kind |-> "http", code |-> 500, detail |-> "Internal Server Error",
              fields |-> {}, body |-> NoResult, caught |-> NoExc, unhandled |-> e],
             << >>)

\* BigQueryConfig.close_connection: closes and forgets the handle, if any.
close_connection(cached) ==
    IF cached # 0
    THEN [out |-> Returned([kind |-> "client", handle |-> 0],
                           <<Ev("Client.close", "", "ok")>>),
          client_handle |-> 0]
    ELSE [out |-> Returned([kind |-> "client", handle |-> 0], << >>), client_handle |-> 0]

\* Threads that call get_client on the shared config.
Threads == {1, 2}
ThreadIdle == [pc |-> "idle", saw_empty |-> FALSE, made |-> 0, handle |-> 0]

\* ------------------------------------------------ effect on the warehouse
\* Tables the trace created and did not successfully delete afterwards.
CreatedIn(tr) == {tr[i].table : i \in {j \in 1..Len(tr) :
                     tr[j].call = "create_table" /\ tr[j].out = "ok"}}
DeletedIn(tr) == {tr[i].table : i \in {j \in 1..Len(tr) :
                     tr[j].call = "delete_table" /\ tr[j].out = "ok"}}
AuditTables == {"forecasts", "gemini_generations", "generated_content",
                "embeddings", "vector_searches"}
Appended(tr, tbl) ==
    SelectSeq(tr, LAMBDA e : e.call = "insert_rows_json" /\ e.table = tbl /\ e.out = "ok")

Record(op, input, out) ==
    /\ calls' = calls + 1
    /\ tempTables' = (tempTables \cup CreatedIn(out.trace)) \ DeletedIn(out.trace)
    /\ audit' = [tbl \in AuditTables |->
                    audit[tbl] \o [i \in 1..Len(Appended(out.trace, tbl)) |-> calls + 1]]
    /\ last' = [op |-> op, input |-> input, status |-> out.status, exc |-> out.exc,
                result |-> out.result, trace |-> out.trace]

\* An operation of a feature class: the connection cache is not touched.
Apply(op, input, out) ==
    /\ Record(op, input, out)
    /\ UNCHANGED <<index_store, env, config_global, client_cached, client_handle, handles,
                   threads, inflight, replaced, probes>>

\* The config kinds the feature objects of the process can hold: a
\* BigQueryConfig comes from get_bigquery_config, which has then set the
\* module global; a Mock or a mapping comes from a patched provider.
ObjectConfigs == IF config_global THEN ConfigKinds ELSE ConfigKinds \ {"BigQueryConfig"}

\* Requests the HTTP layer has accepted for the endpoints behind a
\* provider: answered, or still in flight.
Accepted == calls + BagCardinality(inflight) - probes

\* The BigQueryConfig objects the module global has held are numbered in
\* the order they were stored: the global holds the last of them (0 for
\* None), and `replaced` the _client of each earlier one, which the
\* threads that read the global before it was overwritten still use.
GlobalConfig == IF config_global THEN Len(replaced) + 1 ELSE 0
ClientOf(cfg) == IF cfg = GlobalConfig THEN client_handle ELSE replaced[cfg]

\* A thread entering the connection provider.  pc: the statement it
\* executes next; stage: "client" inside get_bigquery_client() of a
\* feature constructor, "config" inside the constructor's second
\* get_bigquery_config(), "probe" inside validate_bigquery_setup(); cfg:
\* the config object get_bigquery_config returned to it; made: the handle
\* it constructed; client: the handle get_client returned to it;
\* saw_config, saw_client: what its two `is None` tests found; pw: the
\* outcomes of its credential lookup, client construction and
\* list_datasets; exc: the exception it raised.
Entering(stage) ==
    [pc |-> "config_check", stage |-> stage, cfg |-> 0, made |-> 0, client |-> 0,
     saw_config |-> FALSE, saw_client |-> FALSE, pw |-> ProbeWorld0, exc |-> NoExc]

\* get_text_generator / get_embedding_generator, the providers behind
\* Depends(...): each request constructs the feature class anew, with no
\* client given.  When the class is patched (the unit tests of the
\* handlers patch main.TextGenerator and main.EmbeddingGenerator), the
\* provider returns the stand-in and the connection provider is not
\* entered.
get_generator(feature) ==
    IF feature = "real" THEN Entering("client")
    ELSE [Entering("client") EXCEPT !.pc = "patched"]

\* health_check is a coroutine that never awaits: from its first statement
\* to its answer the event loop accepts no request and runs no handler.
\* The providers run in worker threads and go on meanwhile.
LoopFree == \A r \in BagToSet(inflight) : r.ep # "GET /health"

\* What the model keeps of the process besides the connection cache, and
\* the connection cache.
served == <<calls, tempTables, audit, last, index_store, env, threads, probes>>
connection == <<config_global, client_cached, client_handle, handles, replaced>>

\* Depends(get_text_generator) / Depends(get_embedding_generator): when a
\* request arrives its provider is handed to a worker thread, before the
\* body is validated and outside the handler's try/except.  The provider
\* runs statement by statement (the actions below), interleaved with the
\* providers of the other requests in flight and with GET /health.
Depends(request) ==
    /\ LoopFree
    /\ inflight' = inflight (+) SetToBag({request})
    /\ UNCHANGED <<served, connection>>

\* The thread of request r executes one statement.
Proceed(r, thread) ==
    inflight' = (inflight (-) SetToBag({r})) (+) SetToBag({[r EXCEPT !.thread = thread]})

\* The provider of a patched class returns the stand-in.
ProviderStandIn ==
    \E r \in BagToSet(inflight) :
       /\ r.thread.pc = "patched"
       /\ Proceed(r, [r.thread EXCEPT !.pc = "wait"])
       /\ UNCHANGED <<served, connection>>

\* get_bigquery_config: `if _bigquery_config is None`
GetConfigCheck ==
    \E r \in BagToSet(inflight) :
       /\ r.thread.pc = "config_check"
       /\ Proceed(r, [r.thread EXCEPT
                        !.pc = IF config_global THEN "config_return" ELSE "config_construct",
                        !.saw_config = IF r.thread.stage = "config" THEN @
                                       ELSE config_global])
       /\ UNCHANGED <<served, connection>>

\* get_bigquery_config: `BigQueryConfig()`, the right side of the
\* assignment; the constructor raises when no project id is configured.
GetConfigConstruct ==
    \E r \in BagToSet(inflight) :
       /\ r.thread.pc = "config_construct"
       /\ Proceed(r, IF env.project_id = ""
                     THEN [r.thread EXCEPT
                             !.pc = "raised",
                             !.exc = Exc("ValueError",
                                         "GOOGLE_CLOUD_PROJECT environment variable is required")]
                     ELSE [r.thread EXCEPT !.pc = "config_store"])
       /\ UNCHANGED <<served, connection>>

\* get_bigquery_config: `_bigquery_config = <the object just constructed>`.
\* An object another thread stored in the meantime is overwritten; it
\* keeps its _client.
GetConfigStore ==
    \E r \in BagToSet(inflight) :
       /\ r.thread.pc = "config_store"
       /\ Proceed(r, [r.thread EXCEPT !.pc = "config_return"])
       /\ IF config_global
          THEN /\ replaced' = Append(replaced, client_handle)
               /\ client_handle' = 0
               /\ client_cached' = FALSE
               /\ UNCHANGED config_global
          ELSE /\ config_global' = TRUE
               /\ UNCHANGED <<replaced, client_handle, client_cached>>
       /\ UNCHANGED <<served, handles>>

\* get_bigquery_config: `return _bigquery_config`.  The constructor's
\* second call ends the provider: the request waits for its handler.
GetConfigReturn ==
    \E r \in BagToSet(inflight) :
       /\ r.thread.pc = "config_return"
       /\ Proceed(r, IF r.thread.stage = "config"
                     THEN [r.thread EXCEPT !.pc = "wait"]
                     ELSE [r.thread EXCEPT !.pc = "client_check", !.cfg = GlobalConfig])
       /\ UNCHANGED <<served, connection>>

\* get_client: `if self._client is None`
GetClientCheck ==
    \E r \in BagToSet(inflight) :
       /\ r.thread.pc = "client_check"
       /\ Proceed(r, [r.thread EXCEPT
                        !.pc = IF ClientOf(r.thread.cfg) = 0 THEN "credentials"
                               ELSE "client_return",
                        !.saw_client = ClientOf(r.thread.cfg) # 0])
       /\ UNCHANGED <<served, connection>>

\* get_client: `credentials = self.get_credentials()`
GetClientCredentials ==
    \E r \in BagToSet(inflight) :
       /\ r.thread.pc = "credentials"
       /\ \E out \in {"ok", "raise"} :
             Proceed(r, IF out = "ok"
                        THEN [r.thread EXCEPT !.pc = "construct"]
                        ELSE [r.thread EXCEPT
                                !.pc = "raised", !.pw.credentials = "raise",
                                !.exc = Exc("DefaultCredentialsError",
                                            "credentials not found")])
       /\ UNCHANGED <<served, connection>>

\* get_client: `bigquery.Client(project=..., credentials=..., location=...)`,
\* the right side of the assignment, which constructs a handle or raises.
GetClientConstruct ==
    \E r \in BagToSet(inflight) :
       /\ r.thread.pc = "construct"
       /\ \E out \in {"ok", "raise"} :
             IF out = "ok"
             THEN /\ Proceed(r, [r.thread EXCEPT !.pc = "store", !.made = handles + 1])
                  /\ handles' = handles + 1
             ELSE /\ Proceed(r, [r.thread EXCEPT
                                   !.pc = "raised", !.pw.client = "raise",
                                   !.exc = Exc("Exception", "client creation failed")])
                  /\ UNCHANGED handles
       /\ UNCHANGED <<served, config_global, client_cached, client_handle, replaced>>

\* get_client: `self._client = <the handle just constructed>`
GetClientStore ==
    \E r \in BagToSet(inflight) :
       /\ r.thread.pc = "store"
       /\ Proceed(r, [r.thread EXCEPT !.pc = "client_return"])
       /\ IF r.thread.cfg = GlobalConfig
          THEN /\ client_handle' = r.thread.made
               /\ client_cached' = TRUE
               /\ UNCHANGED replaced
          ELSE /\ replaced' = [replaced EXCEPT ![r.thread.cfg] = r.thread.made]
               /\ UNCHANGED <<client_handle, client_cached>>
       /\ UNCHANGED <<served, config_global, handles>>

\* get_client: `return self._client`.  A feature constructor keeps the
\* handle and goes on to its second get_bigquery_config(); the probe goes
\* on to list_datasets.
GetClientReturn ==
    \E r \in BagToSet(inflight) :
       /\ r.thread.pc = "client_return"
       /\ Proceed(r, [r.thread EXCEPT
                        !.client = ClientOf(r.thread.cfg),
                        !.pc = IF r.thread.stage = "probe" THEN "list" ELSE "config_check",
                        !.stage = IF r.thread.stage = "probe" THEN "probe" ELSE "config"])
       /\ UNCHANGED <<served, connection>>

\* What is recorded of a request whose provider raised.
Unserved(r) ==
    IF r.ep \in SingleEndpoints
    THEN [req |-> r.req, feature |-> r.feature, pw |-> r.thread.pw, w |-> GenWorld0]
    ELSE IF r.ep \in BatchEndpoints
    THEN [reqs |-> r.reqs, feature |-> r.feature, pw |-> r.thread.pw,
          ws |-> [i \in 1..Len(r.reqs) |-> GenWorld0]]
    ELSE [feature |-> r.feature, pw |-> r.thread.pw, w |-> [query |-> "rows", rows |-> 0]]

\* The request is answered: it leaves the requests in flight.
ApplyRequest(request, input, response) ==
    /\ LoopFree
    /\ BagIn(request, inflight)
    /\ Record(request.ep, input, response)
    /\ inflight' = inflight (-) SetToBag({request})
    /\ UNCHANGED <<index_store, env, threads, probes, connection>>

\* The provider raised: the exception escapes the dependency, no handler
\* runs, and the application answers as to any unhandled exception.
ProviderRaised ==
    \E r \in BagToSet(inflight) :
       /\ r.ep # "GET /health"
       /\ r.thread.pc = "raised"
       /\ ApplyRequest(r, Unserved(r), Unhandled(r.thread.exc))

Idle == [op |-> "none", input |-> << >>, status |-> "returned", exc |-> NoExc,
         result |-> NoResult, trace |-> << >>]

\* The settings the test configuration exports (tests/conftest.py).
TestEnv == [project_id |-> "test-project-id", bucket_name |-> "test-bucket",
            secret_key |-> "test-secret-key-for-testing-only",
            environment |-> EnvSet("test"), log_level |-> EnvUnset]

\* The ways the feature objects of a process were constructed, in a fresh
\* process under the test environment: with or without a client, with the
\* real provider or a patched one.  A construction that raised left no
\* object.
Constructions ==
    {feature_init(TestEnv, FALSE, 0, 0, given, patched, w) :
        given \in BOOLEAN, patched \in Patches, w \in ProviderWorlds}
Constructed == {c \in Constructions : c.out.status = "returned"}

\* A process whose feature objects have been constructed and not yet used.
Init ==
    /\ calls = 0
    /\ tempTables = {}
    /\ audit = [tbl \in AuditTables |-> << >>]
    /\ last = Idle
    /\ env = TestEnv
    /\ \E c \in Constructed :
          /\ config_global = c.config_global
          /\ client_cached = (c.client_handle # 0)
          /\ client_handle = c.client_handle
          /\ handles = c.handles
    /\ threads = [t \in Threads |-> ThreadIdle]
    /\ index_store = NoIndexes
    /\ inflight = EmptyBag
    /\ replaced = << >>
    /\ probes = 0

Forecast ==
    /\ calls < MaxCalls
    /\ \E cls \in ForecastClasses, cfg \in ObjectConfigs, n \in 0..MaxRows :
       \E w \in (IF cfg = "mapping" THEN ForecastWorlds ELSE {ForecastWorld0}) :
          Apply("forecast", [cls |-> cls, cfg |-> cfg, n |-> n, w |-> w],
                forecast(cls, cfg, n, <<calls + 1, 0>>, TempTableName(cls, calls + 1), w))

Generate ==
    /\ calls < MaxCalls
    /\ \E op \in GenOps, cfg \in ObjectConfigs, prompt \in Prompts, model \in ModelNames,
          w \in GenWorlds :
          Apply(op, [cfg |-> cfg, prompt |-> prompt, model |-> model,
                     params |-> DefaultParams(op), w |-> w],
                generate(op, cfg, prompt, model, DefaultParams(op), <<calls + 1, 0>>, w))

\* EmbeddingGenerator.generate_embedding called with explicit content_type
\* and model_name.
ContentTypes == {"text", "document"}
EmbeddingModels == {"text-embedding-001", "textembedding-gecko"}
EmbedWorlds ==
    {[GenWorld0 EXCEPT !.vector = x[1], !.store = x[2]] : x \in Vectors \X {"ok", "raise"}}
    \cup {[GenWorld0 EXCEPT !.query = "quota exceeded"]}

GenerateEmbedding ==
    /\ calls < MaxCalls
    /\ \E cfg \in ObjectConfigs, content \in Prompts, ct \in ContentTypes,
          model \in EmbeddingModels, w \in EmbedWorlds :
          Apply("generate_embedding",
                [cfg |-> cfg, prompt |-> content, model |-> model,
                 params |-> [content_type |-> ct], w |-> w],
                generate("generate_embedding", cfg, content, model,
                         [content_type |-> ct], <<calls + 1, 0>>, w))

BatchGenerate ==
    /\ calls < MaxCalls
    /\ \E bop \in BatchOps, cfg \in ObjectConfigs, model \in ModelNames, n \in 0..MaxBatch :
       \E ws \in [1..n -> BatchItemWorlds] :
          Apply(bop, [cfg |-> cfg, prompts |-> BatchPrompts(n), model |-> model,
                      params |-> DefaultParams(bop), ws |-> ws],
                batch_generate(bop, cfg, BatchPrompts(n), model, DefaultParams(bop),
                               calls + 1, ws))

Search ==
    /\ calls < MaxCalls
    /\ \E op \in SearchOps, cfg \in ObjectConfigs, top_k \in TopKs, w \in SearchWorlds :
          Apply(op, [cfg |-> cfg, top_k |-> top_k, w |-> w],
                search(op, cfg, top_k, <<calls + 1, 0>>, w))

\* ---------------------------------------------- requests to the HTTP layer
\* A request is served in two phases: its provider, in a worker thread,
\* then the validation of its body and its handler, on the event loop.
\* A request to a generation endpoint arrives.
DependsGenerate ==
    /\ Accepted < MaxRequests
    /\ \E ep \in SingleEndpoints, feature \in FeatureObjects :
       \E req \in (IF ep \in TextEndpoints THEN TextRequests ELSE EmbeddingRequests) :
          Depends([ep |-> ep, feature |-> feature, req |-> req,
                   thread |-> get_generator(feature)])

\* generate_text (main.py) / generate_embedding (main.py)
PostGenerate ==
    \E r \in BagToSet(inflight) :
       /\ r.ep \in SingleEndpoints
       /\ r.thread.pc = "wait"
       /\ \E w \in (IF ValidationErrors(r.ep, r.req) = {} /\ r.feature = "real"
                    THEN GenWorlds ELSE {GenWorld0}) :
             ApplyRequest(r, [req |-> r.req, feature |-> r.feature, pw |-> r.thread.pw,
                              w |-> w],
                          handle_generate(r.ep, r.req, r.feature, <<calls + 1, 0>>, w))

\* A request to a batch endpoint arrives.
DependsBatch ==
    /\ Accepted < MaxRequests
    /\ \E ep \in BatchEndpoints, feature \in FeatureObjects, n \in 0..MaxBatch,
          bodies \in BatchBodies :
          LET reqs == [i \in 1..n |->
                         [bodies[IF i = 1 THEN 1 ELSE 2] EXCEPT !.text = PromptAt(i)]]
          IN Depends([ep |-> ep, feature |-> feature, reqs |-> reqs,
                      thread |-> get_generator(feature)])

\* batch_generate_text / batch_generate_embeddings (main.py)
PostBatch ==
    \E r \in BagToSet(inflight) :
       /\ r.ep \in BatchEndpoints
       /\ r.thread.pc = "wait"
       /\ \E ws \in (IF r.feature = "real"
                     THEN [1..Len(r.reqs) -> BatchItemWorlds]
                     ELSE {[i \in 1..Len(r.reqs) |-> GenWorld0]}) :
             ApplyRequest(r, [reqs |-> r.reqs, feature |-> r.feature, pw |-> r.thread.pw,
                              ws |-> ws],
                          handle_batch(r.ep, r.reqs, r.feature, calls + 1, ws))

\* A request to a history endpoint arrives.
DependsHistory ==
    /\ Accepted < MaxRequests
    /\ \E ep \in HistoryEndpoints, feature \in FeatureObjects :
          Depends([ep |-> ep, feature |-> feature, thread |-> get_generator(feature)])

\* get_generation_history / get_embedding_history (main.py)
GetHistory ==
    \E r \in BagToSet(inflight) :
       /\ r.ep \in HistoryEndpoints
       /\ r.thread.pc = "wait"
       /\ \E w \in (IF r.feature = "real"
                    THEN HistoryWorlds ELSE {[query |-> "rows", rows |-> 0]}) :
             ApplyRequest(r, [feature |-> r.feature, pw |-> r.thread.pw, w |-> w],
                          handle_history(r.ep, r.feature, w))

\* The pure helpers of the feature classes, applied to drawn inputs.
GetForecastMetrics ==
    /\ calls < MaxHelperCalls
    /\ \E fr \in ForecastResults :
          Apply("get_forecast_metrics", [forecast_result |-> fr],
                Returned(get_forecast_metrics(fr), << >>))

ValidateSchemaCompliance ==
    /\ calls < MaxHelperCalls
    /\ \E content \in Contents, schema \in Schemas :
          Apply("_validate_schema_compliance", [content |-> content, schema |-> schema],
                Returned(_validate_schema_compliance(content, schema), << >>))

BuildFilteredQuery ==
    /\ calls < MaxHelperCalls
    /\ \E fc \in FilterMaps :
          Apply("_build_filtered_vector_search_query", [filter_conditions |-> fc],
                _build_filtered_vector_search_query(fc))

GetSearchMetrics ==
    /\ calls < MaxHelperCalls
    /\ \E rs \in ResultLists :
          Apply("get_search_metrics", [search_results |-> rs],
                Returned(get_search_metrics(rs), << >>))

CalculateEfficiencyScore ==
    /\ calls < MaxHelperCalls
    /\ \E status \in IndexStatuses :
          Apply("_calculate_efficiency_score", [status |-> status],
                Returned([kind |-> "score", score |-> _calculate_efficiency_score(status)],
                         << >>))

ValidateObjectRef ==
    /\ calls < MaxHelperCalls
    /\ \E object_ref \in ObjectRefs, object_type \in ObjectTypes :
          Apply("_validate_object_ref",
                [object_ref |-> object_ref, object_type |-> object_type],
                _validate_object_ref(object_ref, object_type))

CreateObjectRef ==
    /\ calls < MaxHelperCalls
    /\ \E cfg \in ObjectConfigs, bucket_name \in BucketNames, file_path \in FilePaths,
          object_type \in ObjectTypes, store \in InsertOuts :
          Apply("create_object_ref",
                [cfg |-> cfg, bucket_name |-> bucket_name, file_path |-> file_path,
                 object_type |-> object_type, store |-> store],
                create_object_ref(cfg, bucket_name, file_path, object_type, store))

ProcessAnalysisResults ==
    /\ calls < MaxHelperCalls
    /\ \E results \in FileLists, analysis_type \in AnalysisTypes :
          Apply("_process_analysis_results",
                [results |-> results, analysis_type |-> analysis_type],
                Returned(_process_analysis_results(results, analysis_type), << >>))

BuildGenerationQuery ==
    /\ calls < MaxHelperCalls
    /\ \E op \in GenOps, prompt \in QueryPrompts, model \in ModelNames, kwargs \in Kwargs :
          Apply(BuilderOf(op),
                [op |-> op, prompt |-> prompt, model |-> model, kwargs |-> kwargs],
                Returned([kind |-> "query", query |-> BuildQuery(op, prompt, model, kwargs)],
                         << >>))

\* generate_text / generate_embedding called with one additional keyword
\* parameter.
GenerateWithKwargs ==
    /\ calls < MaxHelperCalls
    /\ \E op \in {"generate_text", "generate_embedding"}, cfg \in ObjectConfigs,
          prompt \in Prompts, model \in ModelNames, e \in KwargEntries, w \in GenWorlds :
          LET params == IF op = "generate_text" THEN ParametersWith(op, <<e>>)
                        ELSE DefaultParams(op)
          IN Apply(op, [cfg |-> cfg, prompt |-> prompt, model |-> model,
                        params |-> params, kwargs |-> <<e>>, w |-> w],
                   generate(op, cfg, prompt, model, params,
                            <<calls + 1, 0>>, w))

\* An operation of the index manager: the warehouse's indexes and their
\* metadata rows follow the calls it issued.
ApplyIndex(op, input, out) ==
    /\ Record(op, input, out)
    /\ index_store' = IndexStoreAfter(index_store, out.trace)
    /\ UNCHANGED <<env, config_global, client_cached, client_handle, handles, threads,
                   inflight, replaced, probes>>

CreateVectorIndex ==
    /\ calls < MaxIndexCalls
    /\ \E cfg \in ObjectConfigs, given \in GivenIndexNames, table_id \in IndexTables,
          embedding_column \in EmbeddingColumns, w \in IndexWorlds :
          ApplyIndex("create_vector_index",
                     [cfg |-> cfg, index_name |-> given, table_id |-> table_id,
                      embedding_column |-> embedding_column, w |-> w],
                     create_vector_index(
                         cfg, given, table_id, embedding_column,
                         IndexNameFor(given, table_id, embedding_column)
                             \in index_store.indexes, w))

DropVectorIndex ==
    /\ calls < MaxIndexCalls
    /\ \E cfg \in ObjectConfigs, index_name \in IndexNames, w \in IndexWorlds :
          ApplyIndex("drop_vector_index", [cfg |-> cfg, index_name |-> index_name, w |-> w],
                     drop_vector_index(cfg, index_name,
                                       index_name \in index_store.indexes, w))

ForecastFromTable ==
    /\ calls < MaxCalls
    /\ \E cfg \in ObjectConfigs, table_id \in SourceTables, w \in FromTableWorlds :
          Apply("forecast_from_table", [cfg |-> cfg, table_id |-> table_id, w |-> w],
                forecast_from_table(cfg, table_id, <<calls + 1, 0>>, w))

GenerateTextWithGemini ==
    /\ calls < MaxCalls
    /\ \E cfg \in ObjectConfigs, prompt \in Prompts,
          model \in GeminiModels("generate_text_with_gemini"), w \in GeminiWorlds :
          Apply("generate_text_with_gemini",
                [cfg |-> cfg, prompt |-> prompt, model |-> model, w |-> w],
                generate_with_gemini("generate_text_with_gemini", cfg, prompt, model,
                                     <<calls + 1, 0>>, w))

GenerateEmbeddingsWithGemini ==
    /\ calls < MaxCalls
    /\ \E cfg \in ObjectConfigs, text \in Prompts,
          model \in GeminiModels("generate_embeddings_with_gemini"), w \in GeminiWorlds :
          Apply("generate_embeddings_with_gemini",
                [cfg |-> cfg, prompt |-> text, model |-> model, w |-> w],
                generate_with_gemini("generate_embeddings_with_gemini", cfg, text, model,
                                     <<calls + 1, 0>>, w))

GenerateStructuredContent ==
    /\ calls < MaxCalls
    /\ \E cfg \in ObjectConfigs, prompt \in Prompts, schema \in StructuredSchemas,
          model \in ModelNames, w \in StructuredWorlds :
          Apply("generate_structured_content",
                [cfg |-> cfg, prompt |-> prompt, schema |-> schema, model |-> model,
                 w |-> w],
                generate_structured_content(cfg, prompt, schema, model,
                                            <<calls + 1, 0>>, w))

SearchWithFilter ==
    /\ calls < MaxHelperCalls
    /\ \E fc \in AnyFilterMaps,
          w \in {SearchWorld0, [SearchWorld0 EXCEPT !.query = "rows0"],
                 [SearchWorld0 EXCEPT !.query = "access denied"]} :
          Apply("search_with_filter",
                [cfg |-> "mapping", filter_conditions |-> fc, top_k |-> 1, w |-> w],
                search_with_filter("mapping", fc, 1, <<calls + 1, 0>>, w))

\* The read operations called on the feature classes directly.
ReadHistory ==
    /\ calls < MaxCalls
    /\ \E op \in HistoryOps, cfg \in ObjectConfigs, w \in HistoryWorlds :
          Apply(op, [cfg |-> cfg, w |-> w], get_history(op, cfg, w))

GetEmbeddingByHash ==
    /\ calls < MaxCalls
    /\ \E c \in Prompts, cfg \in ObjectConfigs, w \in LookupWorlds :
          Apply("get_embedding_by_hash",
                [cfg |-> cfg, content_hash |-> Sha256Hex(c), w |-> w],
                get_embedding_by_hash(Sha256Hex(c), cfg, w))

\* What a connectivity probe leaves in the connection cache.
ConnectionAfter(probe) ==
    /\ config_global' = probe.config_global
    /\ client_cached' = probe.client_cached
    /\ handles' = (IF probe.client_cached /\ ~client_cached THEN handles + 1 ELSE handles)
    /\ client_handle' = (IF ~probe.client_cached THEN 0
                         ELSE IF client_cached THEN client_handle ELSE handles + 1)
    /\ UNCHANGED <<index_store, env, threads, inflight, replaced, probes>>

\* GET /health: health_check starts on the event loop, computes
\* validate_config() and enters validate_bigquery_setup(), which runs
\* statement by statement (the actions of the connection provider above)
\* while the providers of the requests in flight run in their threads.
HealthCheck ==
    /\ probes < MaxProbes
    /\ LoopFree
    /\ probes' = probes + 1
    /\ inflight' = inflight (+) SetToBag({[ep |-> "GET /health",
                                           thread |-> Entering("probe")]})
    /\ UNCHANGED <<calls, tempTables, audit, last, index_store, env, threads, connection>>

\* validate_connection: `datasets = list(client.list_datasets(max_results=1))`
ListDatasets ==
    \E r \in BagToSet(inflight) :
       /\ r.thread.pc = "list"
       /\ \E out \in {"ok", "raise"} :
             Proceed(r, [r.thread EXCEPT !.pc = "probed", !.pw.list = out])
       /\ UNCHANGED <<served, connection>>

\* validate_bigquery_setup returns True when list_datasets returned and
\* False for every exception; health_check builds its answer.
HealthAnswer ==
    \E r \in BagToSet(inflight) :
       /\ r.ep = "GET /health"
       /\ r.thread.pc \in {"probed", "raised"}
       /\ Record("GET /health",
                 [config_global |-> r.thread.saw_config,
                  client_cached |-> r.thread.saw_client, w |-> r.thread.pw],
                 health_check(validate_config(env),
                              r.thread.pc = "probed" /\ r.thread.pw.list = "ok"))
       /\ inflight' = inflight (-) SetToBag({r})
       /\ UNCHANGED <<index_store, env, threads, probes, connection>>

\* The environments a server process may be started in.
\* A complete environment, and the ways it can fall short.
DevEnv == [TestEnv EXCEPT !.environment = EnvUnset]
Envs == {DevEnv, TestEnv, [DevEnv EXCEPT !.project_id = ""],
         [DevEnv EXCEPT !.bucket_name = ""], [DevEnv EXCEPT !.secret_key = ""],
         [DevEnv EXCEPT !.environment = EnvSet("")],
         [DevEnv EXCEPT !.environment = EnvSet("prod"), !.log_level = EnvSet("debug")],
         [DevEnv EXCEPT !.log_level = EnvSet("verbose")]}

InitHttp ==
    /\ calls = 0
    /\ tempTables = {}
    /\ audit = [tbl \in AuditTables |-> << >>]
    /\ last = Idle
    /\ env \in Envs
    /\ config_global = FALSE
    /\ client_cached = FALSE
    /\ client_handle = 0
    /\ handles = 0
    /\ threads = [t \in Threads |-> ThreadIdle]
    /\ index_store = NoIndexes
    /\ inflight = EmptyBag
    /\ replaced = << >>
    /\ probes = 0

\* The statements of the providers in flight.
ProviderSteps ==
    \/ ProviderStandIn \/ GetConfigCheck \/ GetConfigConstruct \/ GetConfigStore
    \/ GetConfigReturn \/ GetClientCheck \/ GetClientCredentials \/ GetClientConstruct
    \/ GetClientStore \/ GetClientReturn \/ ProviderRaised

NextHttp ==
    \/ DependsGenerate \/ PostGenerate \/ DependsBatch \/ PostBatch
    \/ DependsHistory \/ GetHistory \/ HealthCheck \/ ListDatasets \/ HealthAnswer
    \/ ProviderSteps
SpecHttp == InitHttp /\ [][NextHttp]_vars

\* ------------------------------------- calls on the connection provider
GetBigQueryClient ==
    /\ calls < MaxConnCalls
    /\ \E w \in {x \in ProbeWorlds : x.list = "ok"} :
          LET r == get_bigquery_client(env, config_global, client_handle, handles, w)
          IN /\ Record("get_bigquery_client",
                       [config_global |-> config_global, client_handle |-> client_handle,
                        handles |-> handles, w |-> w],
                       r.out)
             /\ config_global' = r.config_global
             /\ client_handle' = r.client_handle
             /\ client_cached' = (r.client_handle # 0)
             /\ handles' = r.handles
             /\ UNCHANGED <<index_store, env, threads, inflight, replaced, probes>>

CloseConnection ==
    /\ calls < MaxConnCalls
    /\ config_global
    /\ LET r == close_connection(client_handle)
       IN /\ Record("close_connection",
                    [config_global |-> config_global, client_handle |-> client_handle,
                     handles |-> handles, w |-> ProbeWorld0],
                    r.out)
          /\ client_handle' = r.client_handle
          /\ client_cached' = (r.client_handle # 0)
          /\ UNCHANGED <<index_store, env, config_global, handles, threads, inflight, replaced, probes>>

ValidateBigQuerySetup ==
    /\ calls < MaxConnCalls
    /\ \E w \in ProbeWorlds :
          LET probe == validate_bigquery_setup(env, config_global, client_cached, w)
          IN /\ Record("validate_bigquery_setup",
                       [config_global |-> config_global, client_handle |-> client_handle,
                        handles |-> handles, w |-> w],
                       Returned([kind |-> "bool", ok |-> probe.ok], << >>))
             /\ ConnectionAfter(probe)

InitConn ==
    /\ calls = 0
    /\ tempTables = {}
    /\ audit = [tbl \in AuditTables |-> << >>]
    /\ last = Idle
    /\ env \in {TestEnv, [TestEnv EXCEPT !.project_id = ""]}
    /\ config_global = FALSE
    /\ client_cached = FALSE
    /\ client_handle = 0
    /\ handles = 0
    /\ threads = [t \in Threads |-> ThreadIdle]
    /\ index_store = NoIndexes
    /\ inflight = EmptyBag
    /\ replaced = << >>
    /\ probes = 0

NextConn == GetBigQueryClient \/ CloseConnection \/ ValidateBigQuerySetup
SpecConn == InitConn /\ [][NextConn]_vars

\* ------------------------------ get_client, statement by statement
\* The steps of one thread's config.get_client() on the shared config; the
\* interpreter may switch threads between any two of them.
\* `if self._client is None`
ThreadCheck(t) ==
    /\ calls < MaxThreadCalls
    /\ config_global
    /\ threads[t].pc \in {"idle", "done", "raised"}
    /\ calls' = calls + 1
    /\ threads' = [threads EXCEPT ![t] =
                      [pc |-> IF client_handle = 0 THEN "credentials" ELSE "return",
                       saw_empty |-> client_handle = 0, made |-> 0, handle |-> 0]]
    /\ UNCHANGED <<inflight, replaced, probes, index_store, tempTables, audit, last, env, config_global,
                   client_cached, client_handle, handles>>

\* `credentials = self.get_credentials()`
ThreadCredentials(t) ==
    /\ threads[t].pc = "credentials"
    /\ \E out \in {"ok", "raise"} :
          threads' = [threads EXCEPT ![t].pc = IF out = "ok" THEN "construct" ELSE "raised"]
    /\ UNCHANGED <<inflight, replaced, probes, index_store, calls, tempTables, audit, last, env, config_global, client_cached,
                   client_handle, handles>>

\* A variant of the construction step that looks at the cache again and
\* constructs nothing when a handle has appeared in the meantime.
ThreadConstructRechecking(t) ==
    /\ threads[t].pc = "construct"
    /\ IF client_handle # 0
       THEN /\ threads' = [threads EXCEPT ![t].pc = "return"]
            /\ UNCHANGED handles
       ELSE /\ threads' = [threads EXCEPT ![t].pc = "store", ![t].made = handles + 1]
            /\ handles' = handles + 1
    /\ UNCHANGED <<inflight, replaced, probes, index_store, calls, tempTables, audit, last, env, config_global,
                   client_cached, client_handle>>

\* `bigquery.Client(project=..., credentials=..., location=...)`: the right
\* side of the assignment, which constructs the handle or raises.
ThreadConstruct(t) ==
    /\ threads[t].pc = "construct"
    /\ \E out \in {"ok", "raise"} :
          IF out = "ok"
          THEN /\ threads' = [threads EXCEPT ![t].pc = "store", ![t].made = handles + 1]
               /\ handles' = handles + 1
          ELSE /\ threads' = [threads EXCEPT ![t].pc = "raised"]
               /\ UNCHANGED handles
    /\ UNCHANGED <<inflight, replaced, probes, index_store, calls, tempTables, audit, last, env, config_global,
                   client_cached, client_handle>>

\* `self._client = <the handle just constructed>`
ThreadStore(t) ==
    /\ threads[t].pc = "store"
    /\ threads' = [threads EXCEPT ![t].pc = "return"]
    /\ client_handle' = threads[t].made
    /\ client_cached' = TRUE
    /\ UNCHANGED <<inflight, replaced, probes, index_store, calls, tempTables, audit, last, env, config_global, handles>>

\* `return self._client`
ThreadReturn(t) ==
    /\ threads[t].pc = "return"
    /\ threads' = [threads EXCEPT ![t].pc = "done", ![t].handle = client_handle]
    /\ UNCHANGED <<inflight, replaced, probes, index_store, calls, tempTables, audit, last, env, config_global, client_cached,
                   client_handle, handles>>

\* A process whose global config exists and caches no handle yet.
InitThreads ==
    /\ calls = 0
    /\ tempTables = {}
    /\ audit = [tbl \in AuditTables |-> << >>]
    /\ last = Idle
    /\ env = TestEnv
    /\ config_global = TRUE
    /\ client_cached = FALSE
    /\ client_handle = 0
    /\ handles = 0
    /\ threads = [t \in Threads |-> ThreadIdle]
    /\ index_store = NoIndexes
    /\ inflight = EmptyBag
    /\ replaced = << >>
    /\ probes = 0

NextThreads ==
    \E t \in Threads :
        \/ ThreadCheck(t) \/ ThreadCredentials(t) \/ ThreadConstruct(t)
        \/ ThreadStore(t) \/ ThreadReturn(t)
SpecThreads == InitThreads /\ [][NextThreads]_vars

NextForecast == Forecast \/ ForecastFromTable
SpecForecast == Init /\ [][NextForecast]_vars

NextGen == Generate \/ Search
SpecGen == Init /\ [][NextGen]_vars

NextGemini == GenerateTextWithGemini \/ GenerateEmbeddingsWithGemini
SpecGemini == Init /\ [][NextGemini]_vars

NextStructured == GenerateStructuredContent
SpecStructured == Init /\ [][NextStructured]_vars

NextEmbed == GenerateEmbedding
SpecEmbed == Init /\ [][NextEmbed]_vars

NextRead ==
    \/ ReadHistory \/ GetEmbeddingByHash \/ DependsHistory \/ GetHistory
    \/ ProviderSteps
SpecRead == Init /\ [][NextRead]_vars

NextMetrics == GetForecastMetrics
SpecMetrics == Init /\ [][NextMetrics]_vars

NextSchema == ValidateSchemaCompliance
SpecSchema == Init /\ [][NextSchema]_vars

NextSearchMetrics == GetSearchMetrics
SpecSearchMetrics == Init /\ [][NextSearchMetrics]_vars

NextEfficiency == CalculateEfficiencyScore
SpecEfficiency == Init /\ [][NextEfficiency]_vars

NextObjectRef == ValidateObjectRef \/ CreateObjectRef
SpecObjectRef == Init /\ [][NextObjectRef]_vars

NextAnalysis == ProcessAnalysisResults
SpecAnalysis == Init /\ [][NextAnalysis]_vars

NextQuery == BuildGenerationQuery \/ GenerateWithKwargs
SpecQuery == Init /\ [][NextQuery]_vars

NextIndex == CreateVectorIndex \/ DropVectorIndex
SpecIndex == Init /\ [][NextIndex]_vars

NextFilterSearch == SearchWithFilter
SpecFilterSearch == Init /\ [][NextFilterSearch]_vars

NextFilter == BuildFilteredQuery
SpecFilter == Init /\ [][NextFilter]_vars

NextBatch == BatchGenerate
SpecBatch == Init /\ [][NextBatch]_vars

Next ==
    \/ Forecast \/ Generate \/ Search \/ BatchGenerate \/ GenerateEmbedding
    \/ DependsGenerate \/ PostGenerate \/ DependsBatch \/ PostBatch
    \/ DependsHistory \/ GetHistory \/ HealthCheck \/ ListDatasets \/ HealthAnswer
    \/ ProviderSteps
    \/ GetBigQueryClient \/ CloseConnection \/ ValidateBigQuerySetup
    \/ ReadHistory \/ GetEmbeddingByHash
    \/ GetForecastMetrics \/ ValidateSchemaCompliance \/ BuildFilteredQuery
    \/ GetSearchMetrics \/ CalculateEfficiencyScore
    \/ ValidateObjectRef \/ CreateObjectRef \/ ProcessAnalysisResults
    \/ BuildGenerationQuery \/ GenerateWithKwargs
    \/ CreateVectorIndex \/ DropVectorIndex \/ SearchWithFilter
    \/ ForecastFromTable \/ GenerateTextWithGemini \/ GenerateEmbeddingsWithGemini
    \/ GenerateStructuredContent
    \/ \E t \in Threads :
          \/ ThreadCheck(t) \/ ThreadCredentials(t) \/ ThreadConstruct(t)
        \/ ThreadStore(t) \/ ThreadReturn(t)

Spec == Init /\ [][Next]_vars

\* =================================================================
\* Properties
\* =================================================================
\* How many times a trace issues the warehouse call named call.
CallsOf(tr, call) == Cardinality({i \in 1..Len(tr) : tr[i].call = call})
Deletions(tr) == CallsOf(tr, "delete_table")

\* The warehouse of C3: every call a forecast issues succeeds and the
\* forecast query returns one row carrying a forecast struct.
AllSucceed(w) ==
    /\ w.create = "ok" /\ w.load = "ok" /\ w.query = "row" /\ w.shape = "struct"
    /\ w.del1 = "ok" /\ w.del2 = "ok"

\* C1 (as claimed): every forecast call on inline data issues exactly one
\* temporary-table deletion, whether it returns or raises.
C1_DeletionExactlyOnce ==
    last.op = "forecast" => Deletions(last.trace) = 1

\* C2 (as claimed): when forecast raises after its temporary table was
\* created in the warehouse, a deletion of that table was issued after the
\* creation and before the exception reached the caller.
C2_NoLeakOnError ==
    (last.op = "forecast" /\ last.status = "raised") =>
        \A i \in 1..Len(last.trace) :
            (last.trace[i].call = "create_table" /\ last.trace[i].out = "ok") =>
                \E j \in i + 1..Len(last.trace) :
                    /\ last.trace[j].call = "delete_table"
                    /\ last.trace[j].table = last.trace[i].table

\* C3 (as claimed): with the BigQueryConfig object of get_bigquery_config and
\* a warehouse where every call succeeds, forecast returns a record whose
\* data_points is the number of input rows.
C3_ForecastReturnsWithBigQueryConfig ==
    (/\ last.op = "forecast"
     /\ last.input.cfg = "BigQueryConfig"
     /\ AllSucceed(last.input.w)) =>
        /\ last.status = "returned"
        /\ last.result.data_points = last.input.n

\* ----------------------------------------------------------------- C4
\* An item fails when its query raises, returns no row, or returns a NULL field.
ItemFails(w) == w.query # "row" \/ w.field = "null"

\* C4: a batch of N items never raises and returns N results in input order;
\* result i is an error-tagged record exactly when item i failed, otherwise
\* item i's success record; every item is processed whatever failed before it.
C4_BatchIsolatesFailures ==
    last.op \in BatchOps =>
        LET n == Len(last.input.prompts) IN
        /\ last.status = "returned"
        /\ Len(last.result.results) = n
        /\ CallsOf(last.trace, "query") = n
        /\ \A i \in 1..n :
              IF ItemFails(last.input.ws[i])
              THEN /\ last.result.results[i].kind = "error"
                   /\ last.result.results[i].status = "failed"
                   /\ last.result.results[i].item = last.input.prompts[i]
              ELSE last.result.results[i] =
                       GenRecord(ItemOp(last.op), last.input.prompts[i], last.input.model,
                                 last.input.params, <<calls, i>>, RowField(ItemOp(last.op), last.input.ws[i]))

\* A batch of three whose second item failed and whose third succeeded.
C4_Witness ==
    /\ last.op \in BatchOps
    /\ Len(last.input.prompts) = 3
    /\ ~ItemFails(last.input.ws[1])
    /\ ItemFails(last.input.ws[2])
    /\ ~ItemFails(last.input.ws[3])
    /\ last.result.results[3].kind # "error"

\* ----------------------------------------------------------------- C5
\* C5 (as claimed): when the query returns at least one row, generate_text
\* and generate_embedding return the success record of their inputs,
\* whatever became of the audit write.
C5_RowGivesSuccessRecord ==
    (/\ last.op \in {"generate_text", "generate_embedding"}
     /\ last.input.w.query = "row") =>
        /\ last.status = "returned"
        /\ last.result = GenRecord(last.op, last.input.prompt, last.input.model,
                                   last.input.params, <<calls, 0>>, RowField(last.op, last.input.w))

\* C5 (amended): when the query returns at least one row, the outcome of
\* generate_text and generate_embedding is the same whatever became of the
\* audit write (stored, per-row errors, raised, never issued): the success
\* record of the inputs when the field of the row is not None, and the
\* TypeError of len(None), with no record, when it is None.
C5_AuditFailureKeepsOutcome ==
    (/\ last.op \in {"generate_text", "generate_embedding"}
     /\ last.input.w.query = "row") =>
        IF last.input.w.field # "null"
        THEN /\ last.status = "returned"
             /\ last.result = GenRecord(last.op, last.input.prompt, last.input.model,
                                        last.input.params, <<calls, 0>>,
                                        RowField(last.op, last.input.w))
        ELSE /\ last.status = "raised"
             /\ last.exc = Exc("TypeError", "object of type 'NoneType' has no len()")
             /\ last.result = NoResult

\* A generation whose audit insert was issued and raised.
C5_Witness ==
    /\ last.op \in {"generate_text", "generate_embedding"}
    /\ last.status = "returned"
    /\ \E i \in 1..Len(last.trace) :
          last.trace[i].call = "insert_rows_json" /\ last.trace[i].out = "raise"

\* ----------------------------------------------------------------- C6
\* C6: generate_text, generate_content and generate_embedding raise a
\* ValueError on an empty result and re-raise the error of the query call;
\* in both cases no record is returned.
C6_EmptyOrFailedQueryRaises ==
    last.op \in GenOps =>
        /\ last.input.w.query = "rows0" =>
              /\ last.status = "raised"
              /\ last.exc.type = "ValueError"
              /\ last.result = NoResult
        /\ last.input.w.query \in WarehouseErrors =>
              /\ last.status = "raised"
              /\ last.exc = WarehouseError(last.input.w.query)
              /\ last.result = NoResult

\* A content generation whose query returned no row.
C6_Witness ==
    /\ last.op = "generate_content"
    /\ last.input.w.query = "rows0"
    /\ last.status = "raised"

\* ----------------------------------------------------------------- C7

\* C7 (as claimed): a zero-row result makes search_similar and
\* search_with_filter fail, as it does the generation operations.
C7_SearchZeroRowsFatal ==
    (last.op \in SearchOps /\ last.input.w.query = "rows0") => last.status = "raised"

\* C7 (amended): for the two searches only an error raised by the query is
\* fatal; on a zero-row result they return a record with an empty result
\* list and total_results 0, and attempt no audit write.
C7_SearchZeroRowsReturnsEmpty ==
    last.op \in SearchOps =>
        /\ last.input.w.query = "rows0" =>
              /\ last.status = "returned"
              /\ last.result.results = << >>
              /\ last.result.total_results = 0
              /\ CallsOf(last.trace, "insert_rows_json") = 0
        /\ last.input.w.query \in WarehouseErrors =>
              /\ last.status = "raised"
              /\ last.exc = WarehouseError(last.input.w.query)

\* A filtered search whose query returned no row.
C7_Witness ==
    /\ last.op = "search_with_filter"
    /\ last.input.w.query = "rows0"
    /\ last.status = "returned"

\* ------------------------------------------------------------------ C8
\* C8: GET /health answers "healthy" exactly when the configuration
\* validation and the connectivity probe both succeed; in every other case
\* it still answers HTTP 200, with status "unhealthy", and raises nothing;
\* bigquery_status follows the probe alone.
C8_HealthAggregatesBoth ==
    last.op = "GET /health" =>
        LET config_valid == validate_config(env)
            probe_ok == validate_bigquery_setup(env, last.input.config_global,
                                                last.input.client_cached, last.input.w).ok
        IN /\ last.status = "returned"
           /\ last.result.code = 200
           /\ last.result.body.status \in {"healthy", "unhealthy"}
           /\ (last.result.body.status = "healthy") <=> (config_valid /\ probe_ok)
           /\ last.result.body.bigquery_status
                 = (IF probe_ok THEN "healthy" ELSE "unhealthy")

\* C8 witness: the probe succeeds while the configuration is invalid, and
\* the answer is a 200 whose status is "unhealthy" over a "healthy"
\* bigquery_status.
C8_Witness ==
    /\ last.op = "GET /health"
    /\ ~validate_config(env)
    /\ last.result.code = 200
    /\ last.result.body.status = "unhealthy"
    /\ last.result.body.bigquery_status = "healthy"

\* ------------------------------------------------------------------ C9
Contains(s, m) ==
    \E i \in 1..(Len(s) - Len(m) + 1) : SubSeq(s, i, i + Len(m) - 1) = m

\* The handler caught an exception that its feature operation raised.
FeatureRaised ==
    /\ last.op \in SingleEndpoints \cup BatchEndpoints \cup HistoryEndpoints
    /\ last.result.caught # NoExc
    /\ ~(last.op \in BatchEndpoints /\ Len(last.input.reqs) = 0)

\* C9 (as stated): in each of the six handlers an exception raised by the
\* feature operation becomes a 500 whose detail embeds the exception's
\* message.
C9_EveryHandlerEmbedsMessage ==
    FeatureRaised =>
        /\ last.result.code = 500
        /\ Contains(last.result.detail, last.result.caught.msg)

\* C9 (amended): an exception raised by the feature operation becomes a 500
\* in each of the six handlers; the four generation handlers append the
\* exception's message to their prefix, the two history handlers answer a
\* fixed detail without the message.
C9_GenerationEmbedsHistoryFixed ==
    FeatureRaised =>
        /\ last.result.code = 500
        /\ last.op \in SingleEndpoints \cup BatchEndpoints =>
              /\ Contains(last.result.detail, last.result.caught.msg)
              /\ Contains(last.result.detail, "generation failed: ")
        /\ last.op \in HistoryEndpoints =>
              /\ last.result.detail
                    \in {"Failed to retrieve generation history",
                         "Failed to retrieve embedding history"}
              /\ ~Contains(last.result.detail, last.result.caught.msg)

\* C9 witness: the history operation raised and the handler answered 500.
C9_Witness ==
    /\ FeatureRaised
    /\ last.op \in HistoryEndpoints
    /\ last.result.caught.msg # ""
    /\ last.result.code = 500

\* ----------------------------------------------------------------- C10
\* A text-generation body outside the request model, by the numbers of the
\* claim (temperature and top_p in tenths).
OutsideRequestModel(req) ==
    \/ ~req.has_text
    \/ req.temperature < 0 \/ req.temperature > 10
    \/ req.max_tokens < 1 \/ req.max_tokens > 8192
    \/ req.top_p < 0 \/ req.top_p > 10
    \/ req.top_k < 1

\* C10 (as claimed): a text-generation request without a prompt, or with
\* temperature outside [0,1], max_tokens outside [1,8192], top_p outside
\* [0,1] or top_k below 1, is answered 422, and the feature operation is
\* not invoked: nothing was caught from it and no warehouse call was made.
C10_InvalidRequestRejected ==
    (last.op = "POST /api/v1/generate/text" /\ OutsideRequestModel(last.input.req)) =>
        /\ last.result.code = 422
        /\ last.result.fields # {}
        /\ last.result.caught = NoExc
        /\ last.trace = << >>

\* What the application does: the provider of the generator runs before
\* the body is validated.  When it returns, the invalid body is answered
\* 422 naming the offending fields; when it raises (no project id, no
\* credentials, client construction failing), the request is answered 500
\* without being validated.  In neither case is the feature operation
\* invoked.
C10_ProviderBeforeValidation ==
    (last.op = "POST /api/v1/generate/text" /\ OutsideRequestModel(last.input.req)) =>
        /\ last.result.caught = NoExc
        /\ last.trace = << >>
        /\ IF last.result.unhandled = NoExc
           THEN /\ last.result.code = 422
                /\ last.result.fields = ValidationErrors(last.op, last.input.req)
                /\ last.result.fields # {}
           ELSE /\ last.result.code = 500
                /\ last.result.fields = {}
                /\ last.input.feature = "real"
                /\ last.result.unhandled.type
                      \in {"ValueError", "DefaultCredentialsError", "Exception"}

\* ----------------------------------------------------------------- C11
\* C11: in a sequential series of get_bigquery_client / get_client calls a
\* call that finds a handle cached returns that handle and constructs
\* none; a call that finds none cached and succeeds constructs exactly one,
\* caches it and returns it, so between two close_connection calls exactly
\* one handle is constructed and shared.  close_connection clears the
\* cached handle; when none is cached it closes nothing and changes
\* nothing; the cached handle is always the most recently constructed one.
C11_OneSharedHandle ==
    [][/\ (last'.op = "get_bigquery_client" /\ last'.status = "returned") =>
            IF client_handle # 0
            THEN /\ last'.result.handle = client_handle
                 /\ client_handle' = client_handle
                 /\ handles' = handles
            ELSE /\ handles' = handles + 1
                 /\ client_handle' = handles'
                 /\ last'.result.handle = handles'
       /\ last'.op = "close_connection" =>
            /\ client_handle' = 0
            /\ handles' = handles
            /\ CallsOf(last'.trace, "Client.close") = (IF client_handle # 0 THEN 1 ELSE 0)
       /\ client_handle' \in {0, handles'}
       /\ client_cached' = (client_handle' # 0)]_vars

\* C11 witness: a handle was constructed, closed, and the next
\* get_bigquery_client constructed and returned a second one.
C11_Witness ==
    /\ last.op = "get_bigquery_client"
    /\ last.status = "returned"
    /\ last.input.client_handle = 0
    /\ last.input.handles = 1
    /\ last.result.handle = 2
    /\ client_handle = 2
    /\ handles = 2

\* ----------------------------------------------------------------- C13
\* C13: a failed construction leaves nothing cached.  Without a project id
\* get_bigquery_client fails with ValueError and the global config stays
\* unset; when the credential lookup or the client construction fails the
\* error is re-raised and no handle is cached, so a later call constructs
\* again; validate_bigquery_setup answers False in each of these cases and
\* never raises.
C13_FailedConstructionCachesNothing ==
    [][/\ (last'.op = "get_bigquery_client" /\ ~config_global /\ env.project_id = "") =>
            /\ last'.status = "raised"
            /\ last'.exc.type = "ValueError"
            /\ ~config_global'
            /\ client_handle' = 0
       /\ (/\ last'.op = "get_bigquery_client"
           /\ (config_global \/ env.project_id # "")
           /\ client_handle = 0
           /\ (last'.input.w.credentials = "raise" \/ last'.input.w.client = "raise")) =>
            /\ last'.status = "raised"
            /\ last'.exc.type \in {"DefaultCredentialsError", "Exception"}
            /\ client_handle' = 0
            /\ ~client_cached'
            /\ handles' = handles
       /\ last'.op = "validate_bigquery_setup" =>
            /\ last'.status = "returned"
            /\ ((~config_global /\ env.project_id = "")
                  \/ (client_handle = 0
                        /\ (last'.input.w.credentials = "raise"
                              \/ last'.input.w.client = "raise"))) =>
                 /\ last'.result.ok = FALSE
                 /\ client_handle' = 0
                 /\ handles' = handles
                 /\ (env.project_id = "" => ~config_global')]_vars

\* C13 witness: get_bigquery_client succeeded in constructing a handle in a
\* process where an earlier construction had failed: a failure was followed
\* by a fresh attempt.
C13_Witness ==
    /\ last.op = "get_bigquery_client"
    /\ last.status = "returned"
    /\ last.input.config_global
    /\ last.input.client_handle = 0
    /\ last.input.handles = 0
    /\ handles = 1
    /\ calls >= 2

\* ----------------------------------------------------------------- C12
\* C12: handle construction is guarded by the presence check alone.  A
\* thread that saw the cache empty and gets as far as constructing does
\* construct a handle of its own, whatever another thread has constructed
\* or cached in the meantime; no two threads construct the same handle,
\* and the cache holds a handle some thread constructed.  Two threads
\* that both saw the cache empty therefore leave two handles.
C12_CheckThenConstruct ==
    /\ \A t \in Threads :
          (threads[t].saw_empty /\ threads[t].pc \in {"store", "return", "done"}) =>
              threads[t].made # 0
    /\ \A t, u \in Threads :
          (t # u /\ threads[t].made # 0) => threads[t].made # threads[u].made
    /\ \A t \in Threads : threads[t].made <= handles
    /\ client_handle <= handles
    /\ (\A t \in Threads : threads[t].saw_empty /\ threads[t].pc = "done") =>
          handles >= Cardinality(Threads)

\* C12 witness: both threads saw the cache empty in their first call and
\* each constructed a handle: two client handles exist, and the cache
\* holds the one constructed first, stored last.
C12_Witness ==
    /\ calls = 2
    /\ handles = 2
    /\ \A t \in Threads : threads[t].saw_empty /\ threads[t].made # 0
    /\ threads[1].made # threads[2].made
    /\ client_handle = 1

\* ----------------------------------------------------------------- C14
\* C14: a record returned by generate_embedding has dimensions equal to
\* the length of its embedding_vector, and the audit row sent for the call
\* (at most one) carries the id, content_hash and dimensions of that record.
C14_DimensionsAndAuditRowAgree ==
    (last.op = "generate_embedding" /\ last.status = "returned") =>
        /\ last.result.dimensions = Len(last.result.value.list)
        /\ CallsOf(last.trace, "insert_rows_json") <= 1
        /\ \A i \in 1..Len(last.trace) :
              last.trace[i].call = "insert_rows_json" =>
                  /\ last.trace[i].table = "embeddings"
                  /\ last.trace[i].row.id = last.result.id
                  /\ last.trace[i].row.content_hash = last.result.content_hash
                  /\ last.trace[i].row.dimensions = last.result.dimensions

\* C14 witness: generate_embedding returned a three-dimensional vector and
\* its audit row was stored.
C14_Witness ==
    /\ last.op = "generate_embedding"
    /\ last.status = "returned"
    /\ last.result.dimensions = 3
    /\ \E i \in 1..Len(last.trace) :
          /\ last.trace[i].call = "insert_rows_json"
          /\ last.trace[i].out = "ok"
          /\ last.trace[i].row.dimensions = 3
    /\ Len(audit["embeddings"]) = 1

\* ----------------------------------------------------------------- C15
\* C15: the content_hash of generate_embedding depends on the content
\* alone.  Of any two successive calls that return, whatever their
\* content_type, model_name and the calls before them, the hashes are
\* equal exactly when the contents are equal.
C15_HashFollowsContentAlone ==
    [][(/\ last.op = "generate_embedding" /\ last.status = "returned"
        /\ last'.op = "generate_embedding" /\ last'.status = "returned") =>
           ((last.input.prompt = last'.input.prompt)
               <=> (last.result.content_hash = last'.result.content_hash))]_vars

\* C15 witness: the second of two returned calls has the content of the
\* first under another content_type and model_name; its record carries the
\* SHA-256 digest of that content.
C15_Witness ==
    /\ calls = 2
    /\ last.op = "generate_embedding"
    /\ last.status = "returned"
    /\ last.input.prompt = "It's"
    /\ last.input.params.content_type = "document"
    /\ last.input.model = "textembedding-gecko"
    /\ last.result.content_hash
          = "1d315be944a93f1944421a84f83ce04365bebc1824798f7338ce639423a09547"
    /\ Len(audit["embeddings"]) = 2

\* ----------------------------------------------------------------- C16
\* C16: the read operations never raise.  get_embedding_by_hash returns
\* the record of the row the warehouse answered, None when it answered no
\* row and None when the query raised; the two history reads return an
\* empty list when the query raised; the history endpoints then answer 200
\* with an empty history and total 0.
C16_ReadFailuresDoNotPropagate ==
    /\ last.op = "get_embedding_by_hash" =>
          /\ last.status = "returned"
          /\ CallsOf(last.trace, "query") = 1 =>
                IF last.trace[1].out = "row"
                THEN /\ last.result.kind = "embedding"
                     /\ last.result.id = last.input.w.row.id
                     /\ last.result.content_hash = last.input.w.row.content_hash
                     /\ last.result.embedding_vector = last.input.w.row.embedding_vector
                     /\ last.result.dimensions = last.input.w.row.dimensions
                ELSE last.result = PyNoneResult
    /\ last.op \in HistoryOps =>
          /\ last.status = "returned"
          /\ (CallsOf(last.trace, "query") = 1 /\ last.trace[1].out = "raise") =>
                last.result.history = << >>
    /\ (/\ last.op \in HistoryEndpoints
        /\ last.input.feature = "real"
        /\ CallsOf(last.trace, "query") = 1
        /\ last.trace[1].out = "raise") =>
          /\ last.result.code = 200
          /\ last.result.body.history = << >>
          /\ last.result.body.total = 0

\* C16 witness: the query of a history endpoint raised and the endpoint
\* answered 200 with total 0.
C16_Witness ==
    /\ last.op = "GET /api/v1/embeddings/history"
    /\ last.input.feature = "real"
    /\ last.input.w.query \in WarehouseErrors
    /\ last.trace # << >>
    /\ last.trace[1].out = "raise"
    /\ last.result.code = 200
    /\ last.result.body.total = 0

\* ----------------------------------------------------------------- C17
\* The Bessel-corrected variance of xs as the fraction
\* (n * sum(x^2) - sum(x)^2) / (n * (n - 1)).
SampleVarianceNum(xs) ==
    Len(xs) * SumSeq([i \in 1..Len(xs) |-> xs[i] * xs[i]]) - SumSeq(xs) * SumSeq(xs)
SampleVarianceDen(xs) == Len(xs) * (Len(xs) - 1)

\* C17: the standard deviation reported is 0 for fewer than two values and
\* otherwise the square root of the sum of squared deviations from the
\* mean over n - 1 (to the hundredth: s^2 <= variance < (s + 0.01)^2), 1.0
\* for [1, 2, 3]; mean (sum / n), range (max - min) and standard deviation
\* are reported exactly when forecast_values is present and non-empty.
C17_SampleStandardDeviation ==
    last.op = "get_forecast_metrics" =>
        LET fr == last.input.forecast_result
            vs == fr.forecast_values
            m == last.result
            nonempty == "forecast_values" \in fr.keys /\ vs # << >>
        IN /\ \A k \in {"mean_forecast", "forecast_range", "forecast_std"} :
                 k \in m.keys <=> nonempty
           /\ nonempty =>
                 /\ m.mean_forecast.num = SumSeq(vs) /\ m.mean_forecast.den = Len(vs)
                 /\ \E i, j \in 1..Len(vs) :
                       /\ m.forecast_range = vs[i] - vs[j]
                       /\ \A k \in 1..Len(vs) : vs[j] <= vs[k] /\ vs[k] <= vs[i]
                 /\ Len(vs) = 1 => m.forecast_std = 0
                 /\ Len(vs) >= 2 =>
                       /\ m.forecast_std * m.forecast_std * SampleVarianceDen(vs)
                             <= SampleVarianceNum(vs) * 10000
                       /\ (m.forecast_std + 1) * (m.forecast_std + 1) * SampleVarianceDen(vs)
                             > SampleVarianceNum(vs) * 10000
                 /\ vs = <<1, 2, 3>> => m.forecast_std = 100
           /\ _calculate_std(<< >>) = 0

\* C17 witness: the metrics of the forecast values [1, 2, 3]: mean 6/3,
\* range 2, standard deviation 1.00.
C17_Witness ==
    /\ last.op = "get_forecast_metrics"
    /\ last.input.forecast_result.forecast_values = <<1, 2, 3>>
    /\ last.result.mean_forecast = [num |-> 6, den |-> 3]
    /\ last.result.forecast_range = 2
    /\ last.result.forecast_std = 100

\* ----------------------------------------------------------------- C18
InSeq(x, xs) == \E i \in 1..Len(xs) : xs[i] = x
\* A required field the content lacks.
MissingRequired(f, content, schema) ==
    schema.has_required /\ InSeq(f, schema.required) /\ content[f] = "absent"
\* A present property whose value is not of its declared primitive type.
WrongType(f, content, schema) ==
    /\ schema.has_properties
    /\ content[f] # "absent"
    /\ \/ schema.properties[f] = "string" /\ content[f] # "str"
       \/ schema.properties[f] = "integer" /\ content[f] # "int"
       \/ schema.properties[f] = "number" /\ content[f] \notin {"int", "float"}
\* What each reading of the report shares: is_compliant is false exactly
\* when a required field is missing or a present property has the wrong
\* type; those fields, and no others, are listed under missing_fields and
\* type_mismatches; for a schema requiring the string a and a content where
\* a is an integer, the report is non-compliant and names a.
ComplianceVerdict(content, schema, r) ==
    /\ r.is_compliant = ~(\E f \in Fields : \/ MissingRequired(f, content, schema)
                                            \/ WrongType(f, content, schema))
    /\ \A f \in Fields : InSeq(f, r.missing_fields) <=> MissingRequired(f, content, schema)
    /\ \A f \in Fields :
          (\E i \in 1..Len(r.type_mismatches) :
               Contains(r.type_mismatches[i], f \o ": expected "))
             <=> WrongType(f, content, schema)
    /\ (/\ schema.has_required /\ schema.required = <<"a">>
        /\ schema.has_properties /\ schema.properties["a"] = "string"
        /\ content["a"] = "int") =>
          /\ ~r.is_compliant
          /\ InSeq("a: expected string, got int", r.type_mismatches)

\* C18 (as stated): the verdict above, and every field of the content that
\* the schema does not declare is listed under extra_fields.
C18_ComplianceReport ==
    last.op = "_validate_schema_compliance" =>
        LET content == last.input.content
            schema == last.input.schema
        IN /\ ComplianceVerdict(content, schema, last.result)
           /\ \A f \in Fields :
                 (/\ content[f] # "absent"
                  /\ ~(schema.has_properties /\ schema.properties[f] # "undeclared"))
                    => InSeq(f, last.result.extra_fields)

\* C18 (amended): the verdict above; when the schema has a properties map
\* the fields of the content that are not among its properties, and only
\* they, are listed under extra_fields, whether or not the report is
\* compliant; when the schema has no properties map extra_fields is empty.
C18_ExtraFieldsNeedProperties ==
    last.op = "_validate_schema_compliance" =>
        LET content == last.input.content
            schema == last.input.schema
        IN /\ ComplianceVerdict(content, schema, last.result)
           /\ schema.has_properties =>
                 \A f \in Fields :
                    InSeq(f, last.result.extra_fields)
                       <=> (content[f] # "absent" /\ schema.properties[f] = "undeclared")
           /\ ~schema.has_properties => last.result.extra_fields = << >>

\* C18 witness: the schema requires the string a; the content has the
\* integer a and an undeclared b; the report is non-compliant, names a under
\* type_mismatches and b under extra_fields.
C18_Witness ==
    /\ last.op = "_validate_schema_compliance"
    /\ last.input.schema.required = <<"a">>
    /\ last.input.schema.properties["a"] = "string"
    /\ last.input.content["a"] = "int"
    /\ last.input.content["b"] = "str"
    /\ ~last.result.is_compliant
    /\ last.result.type_mismatches = <<"a: expected string, got int">>
    /\ last.result.extra_fields = <<"b">>
    /\ last.result.missing_fields = << >>

\* ----------------------------------------------------------------- C19
\* The clause C19 describes: "WHERE" and one condition per entry joined
\* by AND; nothing for an empty map.
ClauseHasEntry(sql, e) ==
    CASE e.value.py = "str" ->
            Contains(sql, Identifier(e.column) \o " = '" \o e.value.text \o "'")
      [] e.value.py \in {"int", "float"} ->
            /\ Contains(sql, Identifier(e.column) \o " = " \o e.value.text)
            /\ ~Contains(sql, Identifier(e.column) \o " = '")
      [] e.value.py = "list" -> Contains(sql, Identifier(e.column) \o " IN (")

\* The occurrences of " AND " in a clause.
Conjunctions(sql) ==
    Cardinality({i \in 1..Len(sql) : i + 4 <= Len(sql) /\ SubSeq(sql, i, i + 4) = " AND "})

WhereClauseAsDescribed(fc, out) ==
    /\ out.status = "returned"
    /\ fc = << >> => out.result.where_sql = ""
    /\ fc # << >> =>
          /\ SubSeq(out.result.where_sql, 1, 6) = "WHERE "
          /\ \A i \in 1..Len(fc) : ClauseHasEntry(out.result.where_sql, fc[i])
          /\ Conjunctions(out.result.where_sql) = Len(fc) - 1
    /\ (/\ Len(fc) = 2
        /\ fc[1] = [column |-> "category", value |-> FilterStr("doc")]
        /\ fc[2] = [column |-> "score", value |-> FilterNum("int", "5")]) =>
          out.result.where_sql =
              "WHERE " \o Identifier("category") \o " = 'doc' AND "
                       \o Identifier("score") \o " = 5"

\* C19: for a filter map of strings, numbers and lists the query carries a
\* WHERE clause that is the AND of one condition per entry: a string quoted
\* and compared for equality, a number compared unquoted, a list as an IN
\* test; an empty map gives no WHERE clause; category = 'doc', score = 5
\* gives category = 'doc' AND score = 5.
C19_WhereClauseConjunction ==
    last.op = "_build_filtered_vector_search_query" =>
        WhereClauseAsDescribed(last.input.filter_conditions,
                               [status |-> last.status, result |-> last.result])

\* C19 restricted to maps without an empty list: there the clause is as
\* described.
C19_WithoutEmptyLists ==
    (/\ last.op = "_build_filtered_vector_search_query"
     /\ \A i \in 1..Len(last.input.filter_conditions) :
           last.input.filter_conditions[i].value.py = "list" =>
               last.input.filter_conditions[i].value.items # << >>) =>
        WhereClauseAsDescribed(last.input.filter_conditions,
                               [status |-> last.status, result |-> last.result])

\* ----------------------------------------------------------------- C20
\* C20: the results list of search_similar and search_with_filter is
\* ordered by descending similarity score and has at most top_k entries,
\* one (similarity_score, data) pair per row the warehouse returned, the
\* data being a row of the table without a similarity score, and
\* total_results is the length of the list.
C20_ResultsOrderedAndTruncated ==
    (last.op \in SearchOps /\ last.status = "returned") =>
        LET res == last.result.results
            rows == TableRows(last.input.w.rows)
        IN /\ \A i, j \in 1..Len(res) :
                 i < j => res[i].similarity_score >= res[j].similarity_score
           /\ Len(res) <= last.input.top_k
           /\ \A i \in 1..Len(res) :
                 /\ DOMAIN res[i] = {"similarity_score", "data"}
                 /\ "similarity_score" \notin DOMAIN res[i].data
                 /\ \E k \in 1..Len(rows) :
                       /\ rows[k].similarity_score = res[i].similarity_score
                       /\ rows[k].row_id = res[i].data.row_id
           /\ \A i, j \in 1..Len(res) : i # j => res[i].data.row_id # res[j].data.row_id
           /\ last.input.w.query = "row" =>
                 \/ Len(res) = Len(rows)
                 \/ Len(res) = last.input.top_k
           /\ last.result.total_results = Len(res)

\* A search over a table whose best row comes second, cut to one result.
C20_Witness ==
    /\ last.op = "search_similar"
    /\ last.status = "returned"
    /\ last.input.w.rows = <<0, 7>>
    /\ last.input.top_k = 1
    /\ Len(last.result.results) = 1
    /\ last.result.results[1].similarity_score = 7
    /\ last.result.results[1].data.row_id = 2

\* ----------------------------------------------------------------- C21
\* The scores of all results of a list that carry a number.
AllScores(rs) ==
    LET have == SelectSeq(rs, LAMBDA r : r.similarity_score.present)
    IN [i \in 1..Len(have) |-> have[i].similarity_score.value]

\* The label counts of a result list: each result with a category or a
\* type counted once, under its category when it has both.
LabelCount(rs, l) ==
    Cardinality({i \in 1..Len(rs) :
                    \/ rs[i].data.category = l
                    \/ rs[i].data.category = "" /\ rs[i].data.type = l})

DistributionAsDescribed(rs, m) ==
    /\ "data_type_distribution" \in m.keys <=>
          \E i \in 1..Len(rs) : rs[i].data.category # "" \/ rs[i].data.type # ""
    /\ \A l \in DOMAIN m.data_type_distribution :
          m.data_type_distribution[l] = LabelCount(rs, l)

\* C21 (as claimed): for a non-empty result list the average, minimum,
\* maximum and range of similarity are computed over the scores of all
\* results, a score of 0 included, and data_type_distribution counts each
\* result with a category or type once, by category when it has both.
C21_MetricsOverAllScores ==
    (last.op = "get_search_metrics" /\ last.input.search_results # << >>) =>
        LET rs == last.input.search_results
            m == last.result
            xs == AllScores(rs)
        IN /\ xs # << >> =>
                 /\ {"avg_similarity", "max_similarity", "min_similarity",
                     "similarity_range"} \subseteq m.keys
                 /\ m.avg_similarity.num * Len(xs) = SumSeq(xs) * m.avg_similarity.den
                 /\ m.max_similarity = MaxSeq(xs)
                 /\ m.min_similarity = MinSeq(xs)
                 /\ m.similarity_range = MaxSeq(xs) - MinSeq(xs)
           /\ DistributionAsDescribed(rs, m)

\* What the code does compute: the same statistics over the non-zero
\* scores only, none at all when no score is non-zero; the distribution is
\* as described.
C21_MetricsOverNonZeroScores ==
    (last.op = "get_search_metrics" /\ last.input.search_results # << >>) =>
        LET rs == last.input.search_results
            m == last.result
            nz == SelectSeq(AllScores(rs), LAMBDA x : x # 0)
        IN /\ \A k \in {"avg_similarity", "max_similarity", "min_similarity",
                        "similarity_range"} : k \in m.keys <=> nz # << >>
           /\ nz # << >> =>
                 /\ m.avg_similarity.num * Len(nz) = SumSeq(nz) * m.avg_similarity.den
                 /\ m.max_similarity = MaxSeq(nz)
                 /\ m.min_similarity = MinSeq(nz)
                 /\ m.similarity_range = MaxSeq(nz) - MinSeq(nz)
           /\ DistributionAsDescribed(rs, m)

\* ----------------------------------------------------------------- C22
\* bytes-per-row of a status with a positive row count, as the pair
\* bytes / rows; a is below b when a.bytes * b.rows < b.bytes * a.rows.
IntegerOrMissing(status) == ~status.index_size_bytes.null /\ ~status.row_count.null

BytesPerRowBelow(a, b) ==
    GetOrZero(a.index_size_bytes) * GetOrZero(b.row_count)
        < GetOrZero(b.index_size_bytes) * GetOrZero(a.row_count)

EfficiencyAsDescribed(status, score) ==
    /\ 0 <= score /\ score <= 10000
    /\ GetOrZero(status.row_count) = 0 => score = 0
    /\ (GetOrZero(status.row_count) > 0 /\ GetOrZero(status.index_size_bytes) = 0) =>
          score = 10000
    /\ GetOrZero(status.row_count) > 0 =>
          \A other \in IndexStatuses :
              (/\ IntegerOrMissing(other)
               /\ GetOrZero(other.row_count) > 0
               /\ BytesPerRowBelow(status, other)) =>
                  _calculate_efficiency_score(other) <= score

\* C22 (as claimed): for every status record, with any integer (or
\* missing) index_size_bytes and row_count, the efficiency score lies in
\* [0, 100], is 0 when row_count is 0, 100 when bytes-per-row is 0, and
\* does not increase as bytes-per-row grows.
C22_EfficiencyWithinBounds ==
    (last.op = "_calculate_efficiency_score" /\ IntegerOrMissing(last.input.status)) =>
        EfficiencyAsDescribed(last.input.status, last.result.score)

\* The same for the statuses whose index_size_bytes is not negative, where
\* the score is also 100 minus 50 per 100 bytes per row, floored at 0.
C22_NonNegativeSizes ==
    (/\ last.op = "_calculate_efficiency_score"
     /\ IntegerOrMissing(last.input.status)
     /\ GetOrZero(last.input.status.index_size_bytes) >= 0) =>
        /\ EfficiencyAsDescribed(last.input.status, last.result.score)
        /\ GetOrZero(last.input.status.row_count) > 0 =>
              LET b == GetOrZero(last.input.status.index_size_bytes)
                  r == GetOrZero(last.input.status.row_count)
              IN IF b >= 200 * r THEN last.result.score = 0
                 ELSE /\ 2 * r * last.result.score <= 100 * (200 * r - b) + r
                      /\ 2 * r * last.result.score >= 100 * (200 * r - b) - r

\* ----------------------------------------------------------------- C23
\* scheme://bucket/path: gs://, a bucket (at least one character, no
\* separator), a separator, a path (at least one character).
HasBucketAndPath(ref) ==
    /\ StartsWith(ref, "gs://")
    /\ \E i \in 7..(Len(ref) - 1) :
          /\ SubSeq(ref, i, i) = "/"
          /\ \A j \in 6..(i - 1) : SubSeq(ref, j, j) # "/"

\* The reference create_object_ref builds from its arguments.
BuiltRef == ("gs://" \o last.input.bucket_name) \o ("/" \o last.input.file_path)

\* create_object_ref returns the reference it built, after at most one
\* metadata insert and no other warehouse call.
CreateReturnsBuiltRef ==
    last.op = "create_object_ref" =>
        /\ last.status = "returned"
        /\ last.result.object_ref = BuiltRef
        /\ Len(last.trace) <= 1
        /\ \A i \in 1..Len(last.trace) :
              /\ last.trace[i].call = "insert_rows_json"
              /\ last.trace[i].table = "object_refs_metadata"
              /\ last.trace[i].row.object_ref = BuiltRef

\* C23 (as claimed): validation accepts a reference only if it has the
\* shape gs://bucket/path and rejects every other string with a
\* ValueError, in particular one with no bucket or no path; and
\* create_object_ref stores metadata and returns the reference only when
\* validation passed, checking nothing in storage.
C23_ValidationEnforcesShape ==
    /\ last.op = "_validate_object_ref" =>
          /\ last.status = "returned" <=> HasBucketAndPath(last.input.object_ref)
          /\ last.status = "raised" => last.exc.type = "ValueError"
    /\ last.op = "create_object_ref" =>
          /\ (last.status = "returned" \/ last.trace # << >>) => HasBucketAndPath(BuiltRef)
          /\ \A i \in 1..Len(last.trace) : last.trace[i].call = "insert_rows_json"

\* What validation does enforce: the gs:// prefix, and nothing after it
\* (the two separators it counts are those of the prefix).
C23_ValidationEnforcesPrefix ==
    /\ last.op = "_validate_object_ref" =>
          /\ last.status = "returned" <=> StartsWith(last.input.object_ref, "gs://")
          /\ last.status = "raised" =>
                last.exc = Exc("ValueError", "ObjectRef must start with 'gs://'")
    /\ CreateReturnsBuiltRef

\* ----------------------------------------------------------------- C24
\* The file_types counts add up to total_files, the number of rows.
FileTypesSumToTotal(rows, r) ==
    /\ r.total_files = Len(rows)
    /\ r.file_types["unknown"] + r.file_types["pdf"] + r.file_types["png"] = r.total_files

\* C24 (as claimed): for a non-empty list of file rows the file_types
\* counts sum to total_files and min_size <= avg_size <= max_size, also
\* when some files have size 0 or no size.
C24_SizeDistributionOrdered ==
    (last.op = "_process_analysis_results" /\ last.input.results # << >>) =>
        LET d == last.result.size_distribution
        IN /\ FileTypesSumToTotal(last.input.results, last.result)
           /\ ~d.min_size.inf
           /\ d.min_size.value * d.avg_size.den <= d.avg_size.num
           /\ d.avg_size.num <= d.max_size * d.avg_size.den

\* What the pass does compute: the counts sum to total_files; min_size is
\* the least of the non-zero sizes (infinity when there is none), max_size
\* the greatest of 0 and the non-zero sizes, avg_size is the sum of the
\* sizes over the number of all rows,
\* so avg_size <= max_size always and min_size <= avg_size when every row
\* has a non-zero size.
C24_SizesOverNonZero ==
    (last.op = "_process_analysis_results" /\ last.input.results # << >>) =>
        LET rows == last.input.results
            d == last.result.size_distribution
            nz == {i \in 1..Len(rows) : FileSizeOf(rows[i]) # 0}
        IN /\ FileTypesSumToTotal(rows, last.result)
           /\ d.min_size.inf <=> nz = {}
           /\ nz # {} =>
                 /\ \E i \in nz : d.min_size.value = FileSizeOf(rows[i])
                 /\ d.max_size = 0 \/ \E i \in nz : d.max_size = FileSizeOf(rows[i])
                 /\ \A i \in nz : d.min_size.value <= FileSizeOf(rows[i])
                                     /\ FileSizeOf(rows[i]) <= d.max_size
                 /\ d.avg_size.num * Len(rows)
                       = SumSeq([i \in 1..Len(rows) |-> FileSizeOf(rows[i])]) * d.avg_size.den
           /\ d.max_size >= 0
           /\ nz = {} => d.max_size = 0 /\ d.avg_size.num = 0
           /\ d.avg_size.num <= d.max_size * d.avg_size.den
           /\ nz = 1..Len(rows) => d.min_size.value * d.avg_size.den <= d.avg_size.num

\* ----------------------------------------------------------------- C25
\* The entry is written among the options of the query: "as <name>".
OptionNamed(query, entry) == Contains(query, " as " \o entry.key)

\* C25 (as claimed): every additional keyword parameter given to the text
\* or embedding query builder, a number, a string or a list, appears by
\* name in the options of the query, and the parameters are echoed in the
\* parameters of the record returned.
C25_EveryKwargInOptions ==
    /\ last.op \in {"_build_generate_text_query", "_build_generate_embedding_query"} =>
          \A i \in 1..Len(last.input.kwargs) :
              OptionNamed(last.result.query, last.input.kwargs[i])
    /\ (last.op = "generate_text" /\ last.status = "returned") =>
          last.result.parameters.kwargs = last.input.kwargs

\* What the two builders do write: the numbers, the booleans and the
\* strings, each once and in call order; a list is left out of the query.  generate_text
\* echoes every additional parameter, a list included.
C25_NumbersAndStringsInOptions ==
    /\ last.op \in {"_build_generate_text_query", "_build_generate_embedding_query"} =>
          \A i \in 1..Len(last.input.kwargs) :
              OptionNamed(last.result.query, last.input.kwargs[i])
                 <=> last.input.kwargs[i].value.py # "list"
    /\ (last.op = "generate_text" /\ last.status = "returned") =>
          last.result.parameters.kwargs = last.input.kwargs

\* ----------------------------------------------------------------- C26
\* The position of the first quote character of s after position from; 0
\* when there is none.
QuoteAfter(s, from) ==
    IF \E i \in (from + 1)..Len(s) : SubSeq(s, i, i) = "'"
    THEN CHOOSE i \in (from + 1)..Len(s) :
            /\ SubSeq(s, i, i) = "'"
            /\ \A j \in (from + 1)..(i - 1) : SubSeq(s, j, j) # "'"
    ELSE 0

\* The first string literal of a query as the warehouse reads it (it opens
\* at the first quote and closes at the next), and the query text around
\* it.  In all three builders the first literal is the prompt's.
LiteralRead(query) ==
    SubSeq(query, QuoteAfter(query, 0) + 1, QuoteAfter(query, QuoteAfter(query, 0)) - 1)
OutsideLiteral(query) ==
    SubSeq(query, 1, QuoteAfter(query, 0))
       \o SubSeq(query, QuoteAfter(query, QuoteAfter(query, 0)), Len(query))

\* C26: the text, content and embedding query builders put the prompt
\* between single quotes without escaping it.  For a prompt without a
\* quote the literal is the prompt and the query text outside it is the
\* same whatever the prompt; a quote in the prompt closes the literal
\* there, and what follows it in the prompt is query text outside the
\* literal, so that text depends on the prompt.
C26_PromptEscapesItsLiteral ==
    last.op \in {"_build_generate_text_query", "_build_generate_embedding_query",
                 "_build_ai_generate_query"} =>
        LET prompt == last.input.prompt
            query == last.result.query
            reference == BuildQuery(last.input.op, "x", last.input.model, last.input.kwargs)
            cut == QuoteAfter(prompt, 0)
        IN /\ Contains(query, ("'" \o prompt) \o "'")
           /\ cut = 0 =>
                 /\ LiteralRead(query) = prompt
                 /\ OutsideLiteral(query) = OutsideLiteral(reference)
           /\ cut # 0 =>
                 /\ LiteralRead(query) = SubSeq(prompt, 1, cut - 1)
                 /\ OutsideLiteral(query) # OutsideLiteral(reference)
                 /\ Contains(OutsideLiteral(query), SubSeq(prompt, cut, Len(prompt)))

\* A text query built for a prompt that closes its literal and adds a
\* condition of its own.
C26_Witness ==
    /\ last.op = "_build_generate_text_query"
    /\ last.input.prompt = "x' OR '1'='1"
    /\ LiteralRead(last.result.query) = "x"
    /\ Contains(OutsideLiteral(last.result.query), "' OR '1'='1' as prompt")

\* ----------------------------------------------------------------- C27
\* s is a prefix of t: every row of s is still in t, in its place.
IsPrefix(s, t) == Len(s) <= Len(t) /\ SubSeq(t, 1, Len(s)) = s

\* C27: in every step in which generate_text, generate_embedding or a
\* search is called, each audit table keeps the rows it had (rows are only
\* appended, at most one and only to the table of the operation); the call
\* attempts at most one audit insert, and only after its query returned a
\* row, never when the query raised or returned no row; and it issues no
\* warehouse call other than its query and that insert.
C27_AuditAppendOnly ==
    [][last'.op \in {"generate_text", "generate_embedding"} \cup SearchOps =>
          /\ \A tbl \in AuditTables :
                /\ IsPrefix(audit[tbl], audit'[tbl])
                /\ Len(audit'[tbl]) <= Len(audit[tbl]) + 1
                /\ tbl # AuditTable(last'.op) => audit'[tbl] = audit[tbl]
          /\ CallsOf(last'.trace, "insert_rows_json") <= 1
          /\ CallsOf(last'.trace, "query") <= 1
          /\ \A i \in 1..Len(last'.trace) :
                /\ last'.trace[i].call \in {"query", "insert_rows_json"}
                /\ last'.trace[i].call = "insert_rows_json" =>
                      /\ last'.input.w.query = "row"
                      /\ last'.trace[i].table = AuditTable(last'.op)
                      /\ \E j \in 1..(i - 1) :
                            last'.trace[j].call = "query" /\ last'.trace[j].out = "row"
          /\ last'.input.w.query # "row" => audit' = audit]_vars

\* Two text generations, each of which stored its audit row: the row of
\* the first is still there, before the row of the second.
C27_Witness ==
    /\ last.op = "generate_text"
    /\ audit["generated_content"] = <<1, 2>>

\* ----------------------------------------------------------------- C28
\* The position of the first event of a call in a trace, 0 when there is
\* none.
FirstCall(tr, call) ==
    IF \E i \in 1..Len(tr) : tr[i].call = call
    THEN CHOOSE i \in 1..Len(tr) :
            tr[i].call = call /\ \A j \in 1..(i - 1) : tr[j].call # call
    ELSE 0

\* C28: create_vector_index attempts the metadata insert only after its
\* CREATE statement succeeded, and raises without an insert when the
\* statement fails; drop_vector_index never raises, returns True exactly
\* when the DROP statement succeeded, attempts the removal of the metadata
\* only after a successful DROP and returns True also when that removal
\* fails.
C28_MetadataFollowsStatement ==
    /\ last.op = "create_vector_index" =>
          LET create == FirstCall(last.trace, "CREATE VECTOR INDEX")
              insert == FirstCall(last.trace, "insert_rows_json")
          IN /\ create = 1
             /\ last.status = "returned" <=> last.trace[create].out = "ok"
             /\ insert # 0 => last.trace[create].out = "ok" /\ create < insert
             /\ last.status = "raised" => insert = 0
             /\ CallsOf(last.trace, "insert_rows_json") <= 1
    /\ last.op = "drop_vector_index" =>
          LET drop == FirstCall(last.trace, "DROP VECTOR INDEX")
              delete == FirstCall(last.trace, "DELETE")
          IN /\ last.status = "returned"
             /\ drop = 1
             /\ last.result.value <=> last.trace[drop].out = "ok"
             /\ delete # 0 => last.trace[drop].out = "ok" /\ drop < delete
             /\ CallsOf(last.trace, "DELETE") <= 1

\* An index was created with its metadata row, then dropped; the removal
\* of the metadata failed, the drop still answered True and the row stays.
C28_Witness ==
    /\ last.op = "drop_vector_index"
    /\ last.result.value
    /\ \E i \in 1..Len(last.trace) :
          last.trace[i].call = "DELETE" /\ last.trace[i].out = "raise"
    /\ last.input.index_name \notin index_store.indexes
    /\ \E i \in 1..Len(index_store.metadata) :
          index_store.metadata[i] = last.input.index_name

\* ----------------------------------------------------------------- C29
\* The conjuncts of a WHERE clause, and those that restrict a column.
ConjunctCount(sql) == IF sql = "" THEN 0 ELSE Conjunctions(sql) + 1
Restricting(sql, column) ==
    Cardinality({i \in 1..Len(sql) :
                    /\ i + Len(Identifier(column)) - 1 <= Len(sql)
                    /\ SubSeq(sql, i, i + Len(Identifier(column)) - 1) = Identifier(column)})

\* The WHERE clause of the query a call submitted.
SubmittedWhere == last.trace[FirstCall(last.trace, "query")].row.where_sql

\* C29 (as claimed): for every entry of the filter map given to
\* search_with_filter, whatever the type of its value, the query submitted
\* has exactly one WHERE conjunct restricting that column, or the call
\* fails; no query is submitted with fewer conjuncts than the map has
\* entries.
C29_NoFilterDropped ==
    (last.op = "search_with_filter" /\ FirstCall(last.trace, "query") # 0) =>
        /\ \A i \in 1..Len(last.input.filter_conditions) :
              Restricting(SubmittedWhere, last.input.filter_conditions[i].column) = 1
        /\ ConjunctCount(SubmittedWhere) >= Len(last.input.filter_conditions)

\* What the builder does: a string, a number, a boolean and a non-empty
\* list each give one conjunct; an entry whose value is None or a nested
\* map gives none and the query is submitted without it; an empty list
\* makes the call fail before any query.
C29_OnlyKnownTypesFiltered ==
    last.op = "search_with_filter" =>
        LET fc == last.input.filter_conditions
            empty_list == \E i \in 1..Len(fc) :
                             fc[i].value.py = "list" /\ fc[i].value.items = << >>
        IN /\ empty_list =>
                 /\ last.status = "raised"
                 /\ last.exc.type = "IndexError"
                 /\ last.trace = << >>
           /\ ~empty_list =>
                 /\ FirstCall(last.trace, "query") = 1
                 /\ \A i \in 1..Len(fc) :
                       Restricting(SubmittedWhere, fc[i].column)
                          = (IF fc[i].value.py \in {"None", "dict"} THEN 0 ELSE 1)
                 /\ ConjunctCount(SubmittedWhere)
                       = Cardinality({i \in 1..Len(fc) : fc[i].value.py \notin {"None", "dict"}})

\* ----------------------------------------------------------------- C30
\* The audit rows a call tried to insert.
RowsSent(tr) ==
    {tr[i].row : i \in {j \in 1..Len(tr) : tr[j].call = "insert_rows_json"}}

\* C30: a batch endpoint whose handler is given its generator (the
\* provider returned one) and a non-empty batch of valid items hands the
\* first item's model name and parameters (temperature, max_tokens, top_p,
\* top_k; content_type for embeddings) to every item: each result and each
\* audit row carries them, whatever the later items say.  The response has
\* total_processed = the number of items and successful = the number of
\* items whose generation did not fail, which are the results without an
\* error marker.
C30_BatchUsesFirstItem ==
    (/\ last.op \in BatchEndpoints
     /\ last.input.feature = "real"
     /\ last.result.unhandled = NoExc
     /\ Len(last.input.reqs) > 0
     /\ \A i \in 1..Len(last.input.reqs) :
           ValidationErrors(last.op, last.input.reqs[i]) = {}) =>
        LET reqs == last.input.reqs
            body == last.result.body
        IN /\ last.status = "returned"
           /\ last.result.code = 200
           /\ Len(body.results) = Len(reqs)
           /\ body.total_processed = Len(reqs)
           /\ body.successful
                 = Cardinality({i \in 1..Len(reqs) :
                                   last.input.ws[i].query \notin WarehouseErrors \cup {"rows0"}})
           /\ body.successful
                 = Cardinality({i \in 1..Len(reqs) : body.results[i].kind # "error"})
           /\ \A i \in 1..Len(reqs) :
                 body.results[i].kind # "error" =>
                    /\ body.results[i].model_name = reqs[1].model_name
                    /\ IF last.op \in TextEndpoints
                       THEN body.results[i].parameters = ParamsOf(last.op, reqs[1])
                       ELSE body.results[i].content_type = reqs[1].content_type
           /\ \A row \in RowsSent(last.trace) :
                 /\ row.model_name = reqs[1].model_name
                 /\ last.op \notin TextEndpoints => row.content_type = reqs[1].content_type

\* C30 (witness): a batch whose second item names another model and other
\* parameters than the first was answered, the second item generated and
\* another item failed.
C30_Witness ==
    /\ last.op \in BatchEndpoints
    /\ last.input.feature = "real"
    /\ Len(last.input.reqs) >= 2
    /\ last.input.reqs[2].model_name # last.input.reqs[1].model_name
    /\ last.input.reqs[2].temperature # last.input.reqs[1].temperature
    /\ last.status = "returned"
    /\ last.result.code = 200
    /\ last.result.body.results[2].kind # "error"
    /\ last.result.body.results[2].model_name = last.input.reqs[1].model_name
    /\ last.result.body.successful < last.result.body.total_processed

====
